---- MODULE Spec2Model ----
(***************************************************************************)
(* A model of the cashflow Sankey drill-down of GnuCash-Dashboard:        *)
(* build_sankey_model, apply_click and the SankeyState resets of           *)
(* src/adapters/interface/streamlit/sankey_cashflow.py, driven the way the *)
(* Streamlit page drives them (src/adapters/interface/streamlit/app.py).   *)
(*                                                                         *)
(* Representation.  A Python str is a sequence of tokens; a token is      *)
(* either one of the characters ":" and " " or a word that contains       *)
(* neither, so that "A:B" is <<"A", ":", "B">>.  Python's None is the      *)
(* empty sequence: the code tests these values for truthiness only.       *)
(* A dict is a function, a list a sequence, a Decimal an integer number   *)
(* of cents.  List indices are 0-based as in the source.                   *)
(*                                                                         *)
(* The second part models the currency conversion and the aggregates built *)
(* on it: the price map and convert_balance of                             *)
(* src/application/use_cases/fx_utils.py and compute_net_worth_summary and *)
(* compute_asset_category_breakdown of src/domain/services/finance.py.     *)
(* There a Decimal is an exact fraction <<numerator, denominator>>, a      *)
(* value that may be None is None or the one-element sequence of the       *)
(* value, and an exception that leaves a function is the one-element       *)
(* sequence of its name.                                                   *)
(***************************************************************************)
EXTENDS Integers, Sequences, FiniteSets, TLC

VARIABLES
    view,       \* the CashflowView of the page, fixed for a session
    state,      \* the SankeyState kept in st.session_state
    model,      \* the SankeyModel of the current run of the page, or NoModel
    fresh,      \* TRUE when the current run has built its model
    op,         \* the operation that ran last
    clicked,    \* node_index passed to the last apply_click
    ret         \* what the last apply_click returned

VARIABLES
    prices,     \* the PriceRow list the repository returned
    balances,   \* the balance rows the repository returned
    fx_call     \* the last call of the conversion services and its result

VARIABLES
    cashflow_rows   \* the CashflowRow list the repository returned

\* the variables of the Sankey page
sankey_vars == <<view, state, model, fresh, op, clicked, ret>>

\* the variables of the conversion services
fx_vars == <<prices, balances, fx_call, cashflow_rows>>

vars == <<view, state, model, fresh, op, clicked, ret, prices, balances,
          fx_call, cashflow_rows>>

----------------------------------------------------------------------------
(* Bounds of the model.                                                    *)

MaxItems == 2       \* items of a view, incoming and outgoing together
MaxAmount == 2      \* largest amount of one item
MaxLevel == 2       \* largest default level of a side

----------------------------------------------------------------------------
(* Python values.                                                          *)

None == <<>>

COLON == ":"
SPACE == " "

Max(a, b) == IF a >= b THEN a ELSE b
Min(a, b) == IF a <= b THEN a ELSE b
Abs(x) == IF x < 0 THEN -x ELSE x

\* dict.get(k, default)
Get(d, k, default) == IF k \in DOMAIN d THEN d[k] ELSE default

\* d[k] = v
Put(d, k, v) == [x \in (DOMAIN d) \cup {k} |-> IF x = k THEN v ELSE d[x]]

\* d.pop(k, None)
Pop(d, k) == [x \in (DOMAIN d) \ {k} |-> d[x]]

EmptyDict == << >>

RECURSIVE Split(_, _)
\* str.split(sep): the pieces between the separators, at least one piece
Split(s, sep) ==
    IF \A i \in 1..Len(s) : s[i] # sep
    THEN <<s>>
    ELSE LET i == CHOOSE k \in 1..Len(s) :
                     s[k] = sep /\ \A j \in 1..(k - 1) : s[j] # sep
         IN  <<SubSeq(s, 1, i - 1)>> \o Split(SubSeq(s, i + 1, Len(s)), sep)

RECURSIVE Strip(_)
\* str.strip(): leading and trailing blanks removed
Strip(s) ==
    IF s = <<>> THEN s
    ELSE IF s[1] = SPACE THEN Strip(Tail(s))
    ELSE IF s[Len(s)] = SPACE THEN Strip(SubSeq(s, 1, Len(s) - 1))
    ELSE s

RECURSIVE Join(_, _)
\* sep.join(parts)
Join(parts, sep) ==
    IF parts = <<>> THEN <<>>
    ELSE IF Len(parts) = 1 THEN parts[1]
    ELSE parts[1] \o <<sep>> \o Join(Tail(parts), sep)

\* list.index(x) for an x that is in the list, 0-based
IndexOf(list, x) ==
    (CHOOSE i \in 1..Len(list) :
        list[i] = x /\ \A j \in 1..(i - 1) : list[j] # x) - 1

RECURSIVE SumAmounts(_)
SumAmounts(items) ==
    IF items = <<>> THEN 0 ELSE items[1].amount + SumAmounts(Tail(items))

----------------------------------------------------------------------------
(* Module constants of sankey_cashflow.py.                                 *)

LEFT_PREFIX == <<"L", COLON>>
MIDDLE_PREFIX == <<"M", COLON>>
\* variant: the right side shares the prefix of the left side
RIGHT_PREFIX_SameAsLeft == <<"L", COLON>>

RIGHT_PREFIX == <<"R", COLON>>

\* the labels are written without their accents
MIDDLE_LABEL == <<"Actifs", SPACE, "selectionnes">>
SAVINGS_LABEL == <<"Epargne", SPACE, "/", SPACE, "Excedent">>
DEFICIT_LABEL == <<"Deficit">>

MIDDLE_KEY == MIDDLE_PREFIX \o <<"ASSETS">>
SAVINGS_KEY == RIGHT_PREFIX \o <<"SAVINGS">>
DEFICIT_KEY == LEFT_PREFIX \o <<"DEFICIT">>

L == <<"L">>
M == <<"M">>
R == <<"R">>

----------------------------------------------------------------------------
(* CashflowSummary.difference                                              *)

difference(summary) == summary.total_in - summary.total_out

----------------------------------------------------------------------------
(* Grouping of one side's items.                                           *)

parse_account_path(account_full_name) ==
    LET raw == Split(account_full_name, COLON)
        parts == [i \in 1..Len(raw) |-> Strip(raw[i])]
    IN  SelectSeq(parts, LAMBDA part : part # <<>>)

level_key(parts, n) ==
    IF parts = <<>> THEN <<>>
    ELSE LET depth == Max(1, Min(n, Len(parts)))
         IN  Join(SubSeq(parts, 1, depth), COLON)

\* the state of the loop of _group_items_by_level before the first item
GroupStart ==
    [order |-> <<>>, totals |-> EmptyDict, root_by_group |-> EmptyDict,
     max_depth_by_root |-> EmptyDict]

\* variant: a later item of a group replaces the group's total
GroupInto_Overwrite(acc, amount, root, group) ==
    IF group \notin DOMAIN acc.totals
    THEN [acc EXCEPT !.order = Append(@, group),
                     !.totals = Put(@, group, amount),
                     !.root_by_group = Put(@, group, root)]
    ELSE [acc EXCEPT !.totals = Put(@, group, amount)]

\* lines 158-163: the group's total is started or increased
GroupInto(acc, amount, root, group) ==
    IF group \notin DOMAIN acc.totals
    THEN [acc EXCEPT !.order = Append(@, group),
                     !.totals = Put(@, group, amount),
                     !.root_by_group = Put(@, group, root)]
    ELSE [acc EXCEPT !.totals = Put(@, group, @[group] + amount)]

\* variant: a focus entry of any root sets the depth of every root
GroupParts_SharedDepth(acc, item, parts, focus_by_root, default_level) ==
    GroupInto([acc EXCEPT !.max_depth_by_root =
                   Put(@, parts[1], Max(Get(@, parts[1], 0), Len(parts)))],
              item.amount,
              parts[1],
              level_key(parts,
                        IF DOMAIN focus_by_root = {} THEN default_level
                        ELSE focus_by_root[CHOOSE r \in DOMAIN focus_by_root :
                                               TRUE]))

\* variant: the depth recorded for a root is the depth it is grouped at
GroupParts_GroupedDepth(acc, item, parts, focus_by_root, default_level) ==
    GroupInto([acc EXCEPT !.max_depth_by_root =
                   Put(@, parts[1],
                       Max(Get(@, parts[1], 0),
                           Min(Len(parts),
                               Max(1, Get(focus_by_root, parts[1],
                                          default_level)))))],
              item.amount,
              parts[1],
              level_key(parts, Get(focus_by_root, parts[1], default_level)))

\* lines 151-157: the root's deepest path and the item's group
GroupParts(acc, item, parts, focus_by_root, default_level) ==
    GroupInto([acc EXCEPT !.max_depth_by_root =
                   Put(@, parts[1], Max(Get(@, parts[1], 0), Len(parts)))],
              item.amount,
              parts[1],
              level_key(parts, Get(focus_by_root, parts[1], default_level)))

\* one iteration of the loop of _group_items_by_level
GroupItem(acc, item, parts, focus_by_root, default_level) ==
    IF parts = <<>> THEN acc
    ELSE GroupParts(acc, item, parts, focus_by_root, default_level)

RECURSIVE GroupLoop(_, _, _, _)
GroupLoop(acc, items, focus_by_root, default_level) ==
    IF items = <<>> THEN acc
    ELSE GroupLoop(GroupItem(acc, items[1],
                             parse_account_path(items[1].account_full_name),
                             focus_by_root, default_level),
                   Tail(items), focus_by_root, default_level)

\* line 165-166: the groups in first-seen order, and the depth of each root
Grouped(acc) ==
    [grouped |-> [i \in 1..Len(acc.order) |->
                    [group |-> acc.order[i],
                     amount |-> acc.totals[acc.order[i]],
                     root |-> acc.root_by_group[acc.order[i]]]],
     max_depth_by_root |-> acc.max_depth_by_root]

_group_items_by_level(items, focus_by_root, default_level) ==
    Grouped(GroupLoop(GroupStart, items, focus_by_root, default_level))

----------------------------------------------------------------------------
(* Node interning and the model builder.  The builder's local variables   *)
(* are the fields of one record that each block of build_sankey_model     *)
(* updates in turn.  An index that may be None is <<>> or <<index>>.       *)

\* returns the lists and dicts it was given, updated, and the node's index
_add_node(nodes, key, label, side, root) ==
    IF key \in DOMAIN nodes.side_by_key
    THEN [nodes EXCEPT !.index = IndexOf(nodes.node_keys, key)]
    ELSE [node_keys |-> Append(nodes.node_keys, key),
          node_labels |-> Append(nodes.node_labels, label),
          side_by_key |-> Put(nodes.side_by_key, key, side),
          root_by_key |-> Put(nodes.root_by_key, key, root),
          index |-> Len(nodes.node_keys)]

\* lines 210-216
BuildStart ==
    [nodes |-> [node_keys |-> <<>>, node_labels |-> <<>>,
                side_by_key |-> EmptyDict, root_by_key |-> EmptyDict,
                index |-> 0],
     left_index_by_group |-> EmptyDict,
     right_index_by_group |-> EmptyDict,
     middle_index |-> None,
     savings_index |-> None,
     deficit_index |-> None,
     links |-> <<>>]

SetLeftIndex(b, group, nodes) ==
    [b EXCEPT !.nodes = nodes,
              !.left_index_by_group = Put(@, group, nodes.index)]

SetRightIndex(b, group, nodes) ==
    [b EXCEPT !.nodes = nodes,
              !.right_index_by_group = Put(@, group, nodes.index)]

RECURSIVE AddLeftNodes(_, _)
\* lines 218-229
AddLeftNodes(b, grouped) ==
    IF grouped = <<>> THEN b
    ELSE AddLeftNodes(
            SetLeftIndex(b, grouped[1].group,
                _add_node(b.nodes, LEFT_PREFIX \o grouped[1].group,
                          grouped[1].group, L, grouped[1].root)),
            Tail(grouped))

SetMiddleIndex(b, nodes) ==
    [b EXCEPT !.nodes = nodes, !.middle_index = <<nodes.index>>]

\* lines 231-240
AddMiddleNode(b) ==
    SetMiddleIndex(b, _add_node(b.nodes, MIDDLE_KEY, MIDDLE_LABEL, M, None))

RECURSIVE AddRightNodes(_, _)
\* lines 242-253
AddRightNodes(b, grouped) ==
    IF grouped = <<>> THEN b
    ELSE AddRightNodes(
            SetRightIndex(b, grouped[1].group,
                _add_node(b.nodes, RIGHT_PREFIX \o grouped[1].group,
                          grouped[1].group, R, grouped[1].root)),
            Tail(grouped))

SetSavingsIndex(b, nodes) ==
    [b EXCEPT !.nodes = nodes, !.savings_index = <<nodes.index>>]

\* lines 258-268
AddSavingsNode(b, diff) ==
    IF diff > 0
    THEN SetSavingsIndex(b,
            _add_node(b.nodes, SAVINGS_KEY, SAVINGS_LABEL, R, None))
    ELSE b

SetDeficitIndex(b, nodes) ==
    [b EXCEPT !.nodes = nodes, !.deficit_index = <<nodes.index>>]

\* lines 269-279
AddDeficitNode(b, diff, allow_negative_diff) ==
    IF diff < 0 /\ allow_negative_diff
    THEN SetDeficitIndex(b,
            _add_node(b.nodes, DEFICIT_KEY, DEFICIT_LABEL, L, None))
    ELSE b

SankeyLink(source, target, value) ==
    [source |-> source, target |-> target, value |-> value]

\* lines 282-285
LeftLinks(b, grouped) ==
    [i \in 1..Len(grouped) |->
        SankeyLink(b.left_index_by_group[grouped[i].group],
                   b.middle_index[1], grouped[i].amount)]

\* lines 286-289
RightLinks(b, grouped) ==
    [i \in 1..Len(grouped) |->
        SankeyLink(b.middle_index[1],
                   b.right_index_by_group[grouped[i].group],
                   grouped[i].amount)]

\* variant: the surplus gets a node but no link
SavingsLinks_Missing(b, diff) == <<>>

\* lines 290-293
SavingsLinks(b, diff) ==
    IF b.savings_index # None
    THEN <<SankeyLink(b.middle_index[1], b.savings_index[1], diff)>>
    ELSE <<>>

\* variant: the deficit link carries the signed difference
DeficitLinks_Signed(b, diff) ==
    IF b.deficit_index # None
    THEN <<SankeyLink(b.deficit_index[1], b.middle_index[1], diff)>>
    ELSE <<>>

\* lines 294-301
DeficitLinks(b, diff) ==
    IF b.deficit_index # None
    THEN <<SankeyLink(b.deficit_index[1], b.middle_index[1], Abs(diff))>>
    ELSE <<>>

\* lines 281-301
AddLinks(b, incoming_grouped, outgoing_grouped, diff) ==
    [b EXCEPT !.links = LeftLinks(b, incoming_grouped)
                        \o RightLinks(b, outgoing_grouped)
                        \o SavingsLinks(b, diff)
                        \o DeficitLinks(b, diff)]

\* lines 303-314
SankeyModel(b, max_depth_left_by_root, max_depth_right_by_root) ==
    [node_labels |-> b.nodes.node_labels,
     node_keys |-> b.nodes.node_keys,
     links |-> b.links,
     key_by_index |-> [i \in 0..(Len(b.nodes.node_keys) - 1) |->
                          b.nodes.node_keys[i + 1]],
     side_by_key |-> b.nodes.side_by_key,
     root_by_key |-> b.nodes.root_by_key,
     max_depth_left_by_root |-> max_depth_left_by_root,
     max_depth_right_by_root |-> max_depth_right_by_root]

\* lines 210-314, given the two groupings of lines 199-208
BuildGrouped(v, s, left, right) ==
    SankeyModel(
        AddLinks(
            AddDeficitNode(
                AddSavingsNode(
                    AddRightNodes(
                        AddMiddleNode(AddLeftNodes(BuildStart, left.grouped)),
                        right.grouped),
                    difference(v.summary)),
                difference(v.summary), s.allow_negative_diff),
            left.grouped, right.grouped, difference(v.summary)),
        left.max_depth_by_root, right.max_depth_by_root)

build_sankey_model(v, s) ==
    BuildGrouped(v, s,
        _group_items_by_level(v.incoming, s.left_focus,
                              s.left_level_default),
        _group_items_by_level(v.outgoing, s.right_focus,
                              s.right_level_default))

----------------------------------------------------------------------------
(* SankeyState and the click handler.                                      *)

SankeyState(left_level_default, right_level_default) ==
    [left_level_default |-> left_level_default,
     right_level_default |-> right_level_default,
     left_focus |-> EmptyDict,
     right_focus |-> EmptyDict,
     allow_negative_diff |-> FALSE,
     last_clicked_side |-> None,
     last_clicked_root |-> None]

\* variant: the last-clicked marker survives the reset
reset_all_KeepMarker(s) ==
    [s EXCEPT !.left_focus = EmptyDict, !.right_focus = EmptyDict]

reset_all(s) ==
    [s EXCEPT !.left_focus = EmptyDict,
              !.right_focus = EmptyDict,
              !.last_clicked_side = None,
              !.last_clicked_root = None]

\* variant: the root is removed from the focus maps of both sides
reset_last_branch_BothSides(s) ==
    IF s.last_clicked_side = None \/ s.last_clicked_root = None THEN s
    ELSE [s EXCEPT !.left_focus = Pop(@, s.last_clicked_root),
                   !.right_focus = Pop(@, s.last_clicked_root)]

reset_last_branch(s) ==
    IF s.last_clicked_side = None \/ s.last_clicked_root = None THEN s
    ELSE IF s.last_clicked_side = L
    THEN [s EXCEPT !.left_focus = Pop(@, s.last_clicked_root)]
    ELSE [s EXCEPT !.right_focus = Pop(@, s.last_clicked_root)]

\* lines 413-417
CurrentLevel(s, side, root) ==
    IF side = L
    THEN Get(s.left_focus, root, s.left_level_default)
    ELSE Get(s.right_focus, root, s.right_level_default)

\* variant: the model's max depth is not consulted
MaxDepth_Unbounded(m, side, root, current_level) == current_level + 1

\* lines 418-423
MaxDepth(m, side, root, current_level) ==
    IF side = L
    THEN Get(m.max_depth_left_by_root, root, current_level)
    ELSE Get(m.max_depth_right_by_root, root, current_level)

\* variant: the level is written to the focus maps of both sides
SetFocus_BothSides(s, side, root, level) ==
    [s EXCEPT !.left_focus = Put(@, root, level),
              !.right_focus = Put(@, root, level)]

\* line 429: focus[root] = level, focus being the dict of the clicked side
SetFocus(s, side, root, level) ==
    IF side = L
    THEN [s EXCEPT !.left_focus = Put(@, root, level)]
    ELSE [s EXCEPT !.right_focus = Put(@, root, level)]

\* variant: the click is not recorded
RecordClick_Skip(s, side, root) == s

\* lines 425-426 and 430-431
RecordClick(s, side, root) ==
    [s EXCEPT !.last_clicked_side = side, !.last_clicked_root = root]

\* variant: the level is raised without a look at max_depth
Advance_PastMax(s, side, root, current_level, max_depth) ==
    [state |-> RecordClick(SetFocus(s, side, root, current_level + 1),
                           side, root),
     ret |-> TRUE]

\* lines 424-432, given current_level and max_depth
Advance(s, side, root, current_level, max_depth) ==
    IF current_level >= max_depth
    THEN [state |-> RecordClick(s, side, root), ret |-> FALSE]
    ELSE [state |-> RecordClick(SetFocus(s, side, root, current_level + 1),
                                side, root),
          ret |-> TRUE]

\* lines 413-432
ClickRoot(s, m, side, root) ==
    Advance(s, side, root, CurrentLevel(s, side, root),
            MaxDepth(m, side, root, CurrentLevel(s, side, root)))

\* lines 408-432, given internal_key
ClickKey(s, m, internal_key) ==
    IF \/ Get(m.side_by_key, internal_key, None) \notin {L, R}
       \/ Get(m.root_by_key, internal_key, None) = None
    THEN [state |-> s, ret |-> FALSE]
    ELSE ClickRoot(s, m, m.side_by_key[internal_key],
                   m.root_by_key[internal_key])

\* the state as the call leaves it, and the value the call returns
apply_click(s, m, node_index) ==
    IF Get(m.key_by_index, node_index, None) = None
    THEN [state |-> s, ret |-> FALSE]
    ELSE ClickKey(s, m, m.key_by_index[node_index])

\* variant: a build that resets the drill-down state it reads
BuildCall_Resets(v, s) ==
    [model |-> build_sankey_model(v, reset_all(s)), view |-> v,
     state |-> reset_all(s)]

\* a call of build_sankey_model: the model it returns, and its two arguments
\* as the call leaves them (no statement of lines 189-314 assigns to them)
BuildCall(v, s) ==
    [model |-> build_sankey_model(v, s), view |-> v, state |-> s]

----------------------------------------------------------------------------
(* The views and states a session starts from.                             *)

CashflowItem(account_full_name, amount) ==
    [account_full_name |-> account_full_name, amount |-> amount]

\* the items of five accounts: two under the root A that share the path A:B,
\* one written with blanks and an empty segment; a root named like the
\* savings key and one named like the deficit key; a name without a segment
Items ==
    { CashflowItem(<<"A", COLON, "B">>, 1),
      CashflowItem(<<SPACE, "A", SPACE, COLON, COLON, "B", COLON, "C">>,
                   MaxAmount),
      CashflowItem(<<"SAVINGS", COLON, "B">>, 1),
      CashflowItem(<<"DEFICIT">>, 1),
      CashflowItem(<<COLON, SPACE>>, MaxAmount) }

ItemLists(n) == UNION {[1..k -> Items] : k \in 0..n}

\* the view GetCashflowUseCase.execute returns: amounts are positive and the
\* totals of the summary are the sums of the two lists
CashflowView(incoming, outgoing) ==
    [summary |-> [total_in |-> SumAmounts(incoming),
                  total_out |-> SumAmounts(outgoing)],
     incoming |-> incoming,
     outgoing |-> outgoing]

Views ==
    {CashflowView(p[1], p[2]) : p \in
        {q \in ItemLists(MaxItems) \X ItemLists(MaxItems) :
            Len(q[1]) + Len(q[2]) <= MaxItems}}

\* a side's default level is 1, as SankeyState() sets it, or the largest level
DefaultLevels == {1, MaxLevel}

NoModel ==
    [node_labels |-> <<>>, node_keys |-> <<>>, links |-> <<>>,
     key_by_index |-> EmptyDict, side_by_key |-> EmptyDict,
     root_by_key |-> EmptyDict, max_depth_left_by_root |-> EmptyDict,
     max_depth_right_by_root |-> EmptyDict]

\* no conversion service was called
NoCall == [name |-> "none"]

Init ==
    /\ prices = <<>>
    /\ balances = <<>>
    /\ cashflow_rows = <<>>
    /\ fx_call = NoCall
    /\ view \in Views
    /\ \E l \in DefaultLevels, r \in DefaultLevels : state = SankeyState(l, r)
    /\ model = NoModel
    /\ fresh = FALSE
    /\ op = "init"
    /\ clicked = 0
    /\ ret = FALSE

----------------------------------------------------------------------------
(* One step of the page (app.py lines 897-999): a rerun builds the model; *)
(* a click on the chart is applied to the model of that rerun; the two     *)
(* buttons and the toggle mutate the state.  The model is a local of one   *)
(* run of the page script: it is gone once the state is mutated, and the   *)
(* next rerun builds another one.                                          *)

Build ==
    /\ LET call == BuildCall(view, state)
       IN  /\ model' = call.model
           /\ view' = call.view
           /\ state' = call.state
    /\ fresh' = TRUE
    /\ op' = "build"
    /\ clicked' = 0
    /\ ret' = FALSE
    /\ UNCHANGED fx_vars

Click ==
    /\ fresh
    /\ \E node_index \in (0 - 1)..Len(model.node_keys) :
         LET call == apply_click(state, model, node_index)
         IN  /\ state' = call.state
             /\ ret' = call.ret
             /\ clicked' = node_index
    /\ model' = NoModel
    /\ fresh' = FALSE
    /\ op' = "click"
    /\ UNCHANGED view
    /\ UNCHANGED fx_vars

ResetAll ==
    /\ state' = reset_all(state)
    /\ model' = NoModel
    /\ fresh' = FALSE
    /\ op' = "reset_all"
    /\ clicked' = 0
    /\ ret' = FALSE
    /\ UNCHANGED view
    /\ UNCHANGED fx_vars

ResetLastBranch ==
    /\ state' = reset_last_branch(state)
    /\ model' = NoModel
    /\ fresh' = FALSE
    /\ op' = "reset_last_branch"
    /\ clicked' = 0
    /\ ret' = FALSE
    /\ UNCHANGED view
    /\ UNCHANGED fx_vars

ToggleNegativeDiff ==
    /\ state' = [state EXCEPT !.allow_negative_diff = ~@]
    /\ model' = NoModel
    /\ fresh' = FALSE
    /\ op' = "toggle"
    /\ clicked' = 0
    /\ ret' = FALSE
    /\ UNCHANGED view
    /\ UNCHANGED fx_vars

Next ==
    \/ Build
    \/ Click
    \/ ResetAll
    \/ ResetLastBranch
    \/ ToggleNegativeDiff

Spec == Init /\ [][Next]_vars

----------------------------------------------------------------------------
(* Vocabulary of the properties below.                                     *)

Sides == {L, R}

OtherSide(side) == IF side = L THEN R ELSE L

FocusOf(s, side) == IF side = L THEN s.left_focus ELSE s.right_focus

DefaultOf(s, side) ==
    IF side = L THEN s.left_level_default ELSE s.right_level_default

ItemsOf(v, side) == IF side = L THEN v.incoming ELSE v.outgoing

\* the depth a build groups the root at
DepthOf(s, side, root) == Get(FocusOf(s, side), root, DefaultOf(s, side))

\* the numbers of path segments of the items of the list that have the root
DepthsOfRoot(items, root) ==
    {Len(parse_account_path(items[i].account_full_name)) :
        i \in {j \in 1..Len(items) :
                 /\ parse_account_path(items[j].account_full_name) # <<>>
                 /\ parse_account_path(items[j].account_full_name)[1] = root}}

SetMax(S) == CHOOSE x \in S : \A y \in S : y <= x

\* the key, side and owning root of the node with the given index
KeyAt(m, i) == Get(m.key_by_index, i, None)
SideAt(m, i) == Get(m.side_by_key, KeyAt(m, i), None)
RootAt(m, i) == Get(m.root_by_key, KeyAt(m, i), None)

ModelMaxDepths(m, side) ==
    IF side = L THEN m.max_depth_left_by_root ELSE m.max_depth_right_by_root

\* the node is a left or right node owned by a root
OnRootNode(m, i) ==
    KeyAt(m, i) # None /\ SideAt(m, i) \in Sides /\ RootAt(m, i) # None

BelowMax(s, m, i) ==
    /\ OnRootNode(m, i)
    /\ RootAt(m, i) \in DOMAIN ModelMaxDepths(m, SideAt(m, i))
    /\ DepthOf(s, SideAt(m, i), RootAt(m, i))
         < ModelMaxDepths(m, SideAt(m, i))[RootAt(m, i)]

AtMax(s, m, i) ==
    /\ OnRootNode(m, i)
    /\ RootAt(m, i) \in DOMAIN ModelMaxDepths(m, SideAt(m, i))
    /\ DepthOf(s, SideAt(m, i), RootAt(m, i))
         >= ModelMaxDepths(m, SideAt(m, i))[RootAt(m, i)]

\* the entries of every root but the given one are the same in both dicts
SameButFor(before, after, root) ==
    /\ (DOMAIN after) \ {root} = (DOMAIN before) \ {root}
    /\ \A r \in (DOMAIN before) \ {root} : after[r] = before[r]

----------------------------------------------------------------------------
(* C1: starting from empty focus maps, with every click applied to the    *)
(* model built from the current state, every focus entry of every root is  *)
(* greater than its side's default level and at most the largest number of *)
(* path segments among that side's items of that root, and no apply_click  *)
(* removes or lowers an entry.                                             *)

C1_FocusBounded ==
    \A side \in Sides : \A root \in DOMAIN FocusOf(state, side) :
        /\ FocusOf(state, side)[root] > DefaultOf(state, side)
        /\ DepthsOfRoot(ItemsOf(view, side), root) # {}
        /\ FocusOf(state, side)[root]
             <= SetMax(DepthsOfRoot(ItemsOf(view, side), root))

C1_ClickNeverLowers ==
    op' = "click" =>
        \A side \in Sides : \A root \in DOMAIN FocusOf(state, side) :
            /\ root \in DOMAIN FocusOf(state', side)
            /\ FocusOf(state', side)[root] >= FocusOf(state, side)[root]

C1_FocusIsBoundedCounter ==
    []C1_FocusBounded /\ [][C1_ClickNeverLowers]_vars

\* a second click in a row has taken a root to its deepest path
C1_Witness ==
    /\ op = "click"
    /\ ret
    /\ \E side \in Sides : \E root \in DOMAIN FocusOf(state, side) :
         /\ FocusOf(state, side)[root] >= DefaultOf(state, side) + 2
         /\ FocusOf(state, side)[root]
              = SetMax(DepthsOfRoot(ItemsOf(view, side), root))

----------------------------------------------------------------------------
(* C2: apply_click on a left or right node owned by a root whose current  *)
(* depth is below the root's max depth in the model returns True, sets the *)
(* root's focus entry on that side to the current depth plus one, records  *)
(* the side and the root as the last click and changes nothing else.       *)

C2_Step ==
    (op' = "click" /\ BelowMax(state, model, clicked')) =>
        /\ ret' = TRUE
        /\ RootAt(model, clicked')
             \in DOMAIN FocusOf(state', SideAt(model, clicked'))
        /\ FocusOf(state', SideAt(model, clicked'))[RootAt(model, clicked')]
             = DepthOf(state, SideAt(model, clicked'),
                       RootAt(model, clicked')) + 1
        /\ state'.last_clicked_side = SideAt(model, clicked')
        /\ state'.last_clicked_root = RootAt(model, clicked')
        /\ SameButFor(FocusOf(state, SideAt(model, clicked')),
                      FocusOf(state', SideAt(model, clicked')),
                      RootAt(model, clicked'))
        /\ FocusOf(state', OtherSide(SideAt(model, clicked')))
             = FocusOf(state, OtherSide(SideAt(model, clicked')))
        /\ state'.left_level_default = state.left_level_default
        /\ state'.right_level_default = state.right_level_default
        /\ state'.allow_negative_diff = state.allow_negative_diff

C2_ClickBelowMaxAdvances == [][C2_Step]_vars

\* an advancing click that left entries on both sides
C2_Witness ==
    /\ op = "click"
    /\ ret
    /\ state.left_focus # EmptyDict
    /\ state.right_focus # EmptyDict

----------------------------------------------------------------------------
(* C3: apply_click on a left or right node owned by a root that is at or   *)
(* above its max depth returns False and leaves both focus maps as they    *)
(* were, and records the side and the root as the last click.              *)

C3_Step ==
    (op' = "click" /\ AtMax(state, model, clicked')) =>
        /\ ret' = FALSE
        /\ state'.left_focus = state.left_focus
        /\ state'.right_focus = state.right_focus
        /\ state'.last_clicked_side = SideAt(model, clicked')
        /\ state'.last_clicked_root = RootAt(model, clicked')

C3_ClickAtMaxOnlyRecords == [][C3_Step]_vars

\* the only incoming item is the root DEFICIT, one segment deep: node 0 is
\* its node, and the click on it was recorded without a focus entry
C3_Witness ==
    /\ op = "click"
    /\ ~ret
    /\ clicked = 0
    /\ Len(view.incoming) = 1
    /\ view.incoming[1].account_full_name = <<"DEFICIT">>
    /\ state.last_clicked_side = L
    /\ state.last_clicked_root = <<"DEFICIT">>
    /\ state.left_focus = EmptyDict

----------------------------------------------------------------------------
(* C4: apply_click on the middle node, on the savings node, on the deficit *)
(* node or on an index that is not a node of the model returns False and   *)
(* leaves every field of the SankeyState unchanged, the last-clicked       *)
(* marker included.                                                        *)

\* the node build_sankey_model interned as middle, savings or deficit node,
\* or no node at all
OnSpecialNode(v, s, m, i) ==
    \/ KeyAt(m, i) = None
    \/ KeyAt(m, i) = MIDDLE_KEY
    \/ difference(v.summary) > 0 /\ KeyAt(m, i) = SAVINGS_KEY
    \/ /\ difference(v.summary) < 0
       /\ s.allow_negative_diff
       /\ KeyAt(m, i) = DEFICIT_KEY

C4_Step ==
    (op' = "click" /\ OnSpecialNode(view, state, model, clicked')) =>
        ret' = FALSE /\ state' = state

C4_SpecialNodeClickIsNoOp == [][C4_Step]_vars

----------------------------------------------------------------------------
(* C5: apply_click returns True exactly when the call modified the         *)
(* SankeyState it was given.                                               *)

C5_Step == op' = "click" => (ret' = TRUE <=> state' # state)

C5_ReturnsWhetherStateChanged == [][C5_Step]_vars

----------------------------------------------------------------------------
(* C6: reset_last_branch, when a last click is recorded, removes that      *)
(* root's entry from that side's focus map, so that the next build groups  *)
(* the root's items at the side's default level, and changes no other root *)
(* and not the other side's map; when no click is recorded it changes      *)
(* nothing.                                                                *)

\* the group names of a grouping
GroupNames(grouped) == {grouped[j].group : j \in 1..Len(grouped)}

\* the paths of a root's items, cut at the default level
CutAtDefault(items, root, default_level) ==
    {level_key(parse_account_path(items[i].account_full_name), default_level) :
        i \in {k \in 1..Len(items) :
                 /\ parse_account_path(items[k].account_full_name) # <<>>
                 /\ parse_account_path(items[k].account_full_name)[1] = root}}

\* the roots of a side's items
RootsOf(v, s, side) ==
    DOMAIN _group_items_by_level(ItemsOf(v, side), FocusOf(s, side),
                                 DefaultOf(s, side)).max_depth_by_root

\* every item of the root is grouped under its path cut at the default level
GroupedAtDefault(v, s, side, root) ==
    CutAtDefault(ItemsOf(v, side), root, DefaultOf(s, side))
      \subseteq GroupNames(_group_items_by_level(ItemsOf(v, side),
                               FocusOf(s, side), DefaultOf(s, side)).grouped)

C6_Step ==
    op' = "reset_last_branch" =>
        IF state.last_clicked_side = None \/ state.last_clicked_root = None
        THEN state' = state
        ELSE /\ state.last_clicked_root
                  \notin DOMAIN FocusOf(state', state.last_clicked_side)
             /\ SameButFor(FocusOf(state, state.last_clicked_side),
                           FocusOf(state', state.last_clicked_side),
                           state.last_clicked_root)
             /\ FocusOf(state', OtherSide(state.last_clicked_side))
                  = FocusOf(state, OtherSide(state.last_clicked_side))
             /\ GroupedAtDefault(view, state', state.last_clicked_side,
                                 state.last_clicked_root)

C6_ResetLastBranchRemovesOneEntry == [][C6_Step]_vars

\* the branch of the last click was reset while the root of the same name
\* keeps its entry on the other side
C6_Witness ==
    /\ op = "reset_last_branch"
    /\ state.last_clicked_side = L
    /\ state.last_clicked_root \notin DOMAIN state.left_focus
    /\ state.last_clicked_root \in DOMAIN state.right_focus

----------------------------------------------------------------------------
(* C7: reset_all empties both focus maps and clears the last-clicked       *)
(* marker, so that the next build groups every root at its side's default  *)
(* level and a following reset_last_branch changes nothing; the two        *)
(* default levels and allow_negative_diff are left unchanged.              *)

C7_Step ==
    op' = "reset_all" =>
        /\ state'.left_focus = EmptyDict
        /\ state'.right_focus = EmptyDict
        /\ state'.last_clicked_side = None
        /\ state'.last_clicked_root = None
        /\ state'.left_level_default = state.left_level_default
        /\ state'.right_level_default = state.right_level_default
        /\ state'.allow_negative_diff = state.allow_negative_diff
        /\ reset_last_branch(state') = state'
        /\ \A side \in Sides :
             \A root \in RootsOf(view, state', side) :
                 /\ DepthOf(state', side, root) = DefaultOf(state', side)
                 /\ GroupedAtDefault(view, state', side, root)

C7_ResetAllClearsDrillDown == [][C7_Step]_vars

\* a reset of a session whose deficit toggle is on and whose left default
\* level is not 1
C7_Witness ==
    /\ op = "reset_all"
    /\ state.allow_negative_diff
    /\ state.left_level_default = MaxLevel
    /\ view.incoming # <<>>

----------------------------------------------------------------------------
(* C8: build_sankey_model modifies neither the SankeyState nor the         *)
(* CashflowView it is given: focus maps, default levels,                   *)
(* allow_negative_diff and the last-clicked marker survive every rebuild.  *)

C8_Step == op' = "build" => state' = state /\ view' = view

C8_BuildLeavesStateAndView == [][C8_Step]_vars

\* a rebuild of a drilled-down session
C8_Witness ==
    /\ op = "build"
    /\ state.left_focus # EmptyDict
    /\ state.right_focus # EmptyDict
    /\ state.last_clicked_root # None
    /\ state.allow_negative_diff

----------------------------------------------------------------------------
(* Vocabulary of the properties of the built model.                        *)

LeftGroups(v, s) ==
    _group_items_by_level(v.incoming, s.left_focus,
                          s.left_level_default).grouped

RightGroups(v, s) ==
    _group_items_by_level(v.outgoing, s.right_focus,
                          s.right_level_default).grouped

PrefixOfSide(side) ==
    IF side = L THEN LEFT_PREFIX
    ELSE IF side = M THEN MIDDLE_PREFIX
    ELSE RIGHT_PREFIX

\* the lists and dicts of a built model, as _add_node takes them
NodesOf(m) ==
    [node_keys |-> m.node_keys, node_labels |-> m.node_labels,
     side_by_key |-> m.side_by_key, root_by_key |-> m.root_by_key,
     index |-> 0]

\* the positions in m.links of the links from node a to node b
LinksBetween(m, a, b) ==
    {k \in 1..Len(m.links) : m.links[k].source = a /\ m.links[k].target = b}

MiddleIndex(m) == IndexOf(m.node_keys, MIDDLE_KEY)

----------------------------------------------------------------------------
(* C9: the node keys of a built model are pairwise distinct, every key     *)
(* starts with the prefix of its side, an incoming group and an outgoing   *)
(* group with the same label are two nodes, keyed L:<label> and            *)
(* R:<label>, that both show the label, and adding a key that exists       *)
(* returns the index of its node and creates no node.                      *)

C9_NodeKeysDistinct ==
    fresh =>
        /\ Len(model.node_labels) = Len(model.node_keys)
        /\ \A i, j \in 1..Len(model.node_keys) :
             i # j => model.node_keys[i] # model.node_keys[j]
        /\ \A i \in 1..Len(model.node_keys) :
             /\ Len(model.node_keys[i]) > Len(LEFT_PREFIX)
             /\ model.side_by_key[model.node_keys[i]] \in {L, M, R}
             /\ SubSeq(model.node_keys[i], 1, Len(LEFT_PREFIX))
                  = PrefixOfSide(model.side_by_key[model.node_keys[i]])
             /\ model.key_by_index[i - 1] = model.node_keys[i]
        /\ \A i \in 1..Len(LeftGroups(view, state)) :
           \A j \in 1..Len(RightGroups(view, state)) :
             LeftGroups(view, state)[i].group
                = RightGroups(view, state)[j].group
             => \E a, b \in 1..Len(model.node_keys) :
                  /\ a # b
                  /\ model.node_keys[a]
                       = <<"L", COLON>> \o LeftGroups(view, state)[i].group
                  /\ model.node_keys[b]
                       = <<"R", COLON>> \o LeftGroups(view, state)[i].group
                  /\ model.node_labels[a] = LeftGroups(view, state)[i].group
                  /\ model.node_labels[b] = LeftGroups(view, state)[i].group
        /\ \A i \in 1..Len(model.node_keys) :
             _add_node(NodesOf(model), model.node_keys[i], <<"again">>, M,
                       None)
               = [NodesOf(model) EXCEPT !.index = i - 1]

\* a model with a left and a right node that show the same label
C9_Witness ==
    /\ fresh
    /\ \E a, b \in 1..Len(model.node_keys) :
         /\ model.node_labels[a] = model.node_labels[b]
         /\ model.side_by_key[model.node_keys[a]] = L
         /\ model.side_by_key[model.node_keys[b]] = R

----------------------------------------------------------------------------
(* C10: if the view's difference is positive the model has a dedicated     *)
(* right-side savings node, without owning root and different from every   *)
(* outgoing group node, and exactly one link from the middle node to it,   *)
(* whose value is the difference; otherwise the model has no savings node  *)
(* and no savings link.                                                    *)

C10_SavingsNode ==
    fresh =>
        IF difference(view.summary) > 0
        THEN \E i \in 1..Len(model.node_keys) :
               /\ model.node_labels[i] = SAVINGS_LABEL
               /\ model.side_by_key[model.node_keys[i]] = R
               /\ model.root_by_key[model.node_keys[i]] = None
               /\ \A j \in 1..Len(RightGroups(view, state)) :
                    model.node_keys[i]
                      # RIGHT_PREFIX \o RightGroups(view, state)[j].group
               /\ Cardinality(
                    LinksBetween(model, MiddleIndex(model), i - 1)) = 1
               /\ \A k \in LinksBetween(model, MiddleIndex(model), i - 1) :
                    model.links[k].value = difference(view.summary)
        ELSE /\ \A i \in 1..Len(model.node_keys) :
                  model.node_labels[i] # SAVINGS_LABEL
             /\ Cardinality({k \in 1..Len(model.links) :
                    model.links[k].source = MiddleIndex(model)})
                  = Len(RightGroups(view, state))

----------------------------------------------------------------------------
(* C11: the model has a deficit node exactly when the view's difference is *)
(* negative and allow_negative_diff is set; the node is then on the left   *)
(* side, without owning root and different from every incoming group node, *)
(* and exactly one link goes from it to the middle node, whose value is    *)
(* the absolute value of the difference; otherwise the model has no        *)
(* deficit node and no deficit link.                                       *)

C11_DeficitNode ==
    fresh =>
        IF difference(view.summary) < 0 /\ state.allow_negative_diff
        THEN \E i \in 1..Len(model.node_keys) :
               /\ model.node_labels[i] = DEFICIT_LABEL
               /\ model.side_by_key[model.node_keys[i]] = L
               /\ model.root_by_key[model.node_keys[i]] = None
               /\ \A j \in 1..Len(LeftGroups(view, state)) :
                    model.node_keys[i]
                      # LEFT_PREFIX \o LeftGroups(view, state)[j].group
               /\ Cardinality(
                    LinksBetween(model, i - 1, MiddleIndex(model))) = 1
               /\ \A k \in LinksBetween(model, i - 1, MiddleIndex(model)) :
                    model.links[k].value = Abs(difference(view.summary))
        ELSE /\ \A i \in 1..Len(model.node_keys) :
                  model.node_labels[i] # DEFICIT_LABEL
             /\ Cardinality({k \in 1..Len(model.links) :
                    model.links[k].target = MiddleIndex(model)})
                  = Len(LeftGroups(view, state))

----------------------------------------------------------------------------
(* Vocabulary of the properties of the links.                              *)

\* the sum of the amounts of the items of a group, from the items
GroupTotal(items, focus_by_root, default_level, group) ==
    SumAmounts(SelectSeq(items, LAMBDA item :
        /\ parse_account_path(item.account_full_name) # <<>>
        /\ level_key(parse_account_path(item.account_full_name),
                     Get(focus_by_root,
                         parse_account_path(item.account_full_name)[1],
                         default_level)) = group))

\* 1 if the build appends a savings link, else 0
SavingsLinkCount(v) == IF difference(v.summary) > 0 THEN 1 ELSE 0

\* 1 if the build appends a deficit link, else 0
DeficitLinkCount(v, s) ==
    IF difference(v.summary) < 0 /\ s.allow_negative_diff THEN 1 ELSE 0

\* the links a model must have, in the order the build appends them
ExpectedLinks(v, s, m, lg, rg) ==
    [i \in 1..Len(lg) |->
        SankeyLink(IndexOf(m.node_keys, LEFT_PREFIX \o lg[i].group),
                   MiddleIndex(m),
                   GroupTotal(v.incoming, s.left_focus, s.left_level_default,
                              lg[i].group))]
    \o [j \in 1..Len(rg) |->
        SankeyLink(MiddleIndex(m),
                   IndexOf(m.node_keys, RIGHT_PREFIX \o rg[j].group),
                   GroupTotal(v.outgoing, s.right_focus,
                              s.right_level_default, rg[j].group))]
    \o (IF SavingsLinkCount(v) = 1
        THEN <<SankeyLink(MiddleIndex(m), IndexOf(m.node_keys, SAVINGS_KEY),
                          difference(v.summary))>>
        ELSE <<>>)
    \o (IF DeficitLinkCount(v, s) = 1
        THEN <<SankeyLink(IndexOf(m.node_keys, DEFICIT_KEY), MiddleIndex(m),
                          Abs(difference(v.summary)))>>
        ELSE <<>>)

----------------------------------------------------------------------------
(* C12: the links of a built model are one link per incoming group from    *)
(* the group's node to the middle node and one link per outgoing group     *)
(* from the middle node to the group's node, each valued with the group's  *)
(* total, followed by the savings link and the deficit link when they      *)
(* apply; both ends of every link are indices of nodes, exactly one end of *)
(* every link is the middle node, and no link value is negative.           *)

C12_Links ==
    fresh =>
        /\ model.links
             = ExpectedLinks(view, state, model, LeftGroups(view, state),
                             RightGroups(view, state))
        /\ \A k \in 1..Len(model.links) :
             /\ model.links[k].source \in 0..(Len(model.node_keys) - 1)
             /\ model.links[k].target \in 0..(Len(model.node_keys) - 1)
             /\ (model.links[k].source = MiddleIndex(model))
                  # (model.links[k].target = MiddleIndex(model))
             /\ model.links[k].value >= 0

\* a model with links of all four kinds but the savings link
C12_Witness ==
    /\ fresh
    /\ LeftGroups(view, state) # <<>>
    /\ RightGroups(view, state) # <<>>
    /\ DeficitLinkCount(view, state) = 1
    /\ Len(model.links) = 3

----------------------------------------------------------------------------
(* Vocabulary of the grouping property: the segments of an account full    *)
(* name described by positions, without the split / strip of the code.     *)

\* the positions where a segment starts: a token that is neither ":" nor a
\* blank, with only blanks between it and the previous ":" or the start
SegmentStarts(name) ==
    {a \in 1..Len(name) :
        /\ name[a] \notin {COLON, SPACE}
        /\ \E c \in 0..(a - 1) :
             /\ c = 0 \/ name[c] = COLON
             /\ \A j \in (c + 1)..(a - 1) : name[j] = SPACE}

\* the position where the segment starting at a ends: its last token that
\* is not a blank, before the next ":" or the end
SegmentEnd(name, a) ==
    CHOOSE b \in a..Len(name) :
        /\ name[b] # SPACE
        /\ \A j \in a..b : name[j] # COLON
        /\ \A j \in (b + 1)..Len(name) :
             (\A i \in (b + 1)..j : name[i] # COLON) => name[j] = SPACE

RECURSIVE Ascending(_)
\* the elements of a finite set of integers in ascending order
Ascending(S) ==
    IF S = {} THEN <<>>
    ELSE <<CHOOSE x \in S : \A y \in S : x <= y>>
         \o Ascending(S \ {CHOOSE x \in S : \A y \in S : x <= y})

SegmentsAt(name, starts) ==
    [k \in 1..Len(starts) |->
        SubSeq(name, starts[k], SegmentEnd(name, starts[k]))]

\* the trimmed non-empty segments of an account full name, in order
Segments(name) == SegmentsAt(name, Ascending(SegmentStarts(name)))

\* the requested depth of a path, clamped to 1..number of segments
ClampedDepth(segments, focus_by_root, default_level) ==
    IF Get(focus_by_root, segments[1], default_level) < 1 THEN 1
    ELSE IF Get(focus_by_root, segments[1], default_level) > Len(segments)
         THEN Len(segments)
         ELSE Get(focus_by_root, segments[1], default_level)

RECURSIVE PathPrefix(_, _)
\* the first d segments joined by ":"
PathPrefix(segments, d) ==
    IF d = 1 THEN segments[1]
    ELSE PathPrefix(segments, d - 1) \o <<COLON>> \o segments[d]

\* the group key of an account full name, <<>> for a name without segment
ExpectedGroup(name, segments, focus_by_root, default_level) ==
    IF segments = <<>> THEN <<>>
    ELSE PathPrefix(segments,
                    ClampedDepth(segments, focus_by_root, default_level))

RECURSIVE ExpectedGroups(_, _, _)
\* the group key of every item, in the order of the items
ExpectedGroups(items, focus_by_root, default_level) ==
    IF items = <<>> THEN <<>>
    ELSE <<ExpectedGroup(items[1].account_full_name,
                         Segments(items[1].account_full_name),
                         focus_by_root, default_level)>>
         \o ExpectedGroups(Tail(items), focus_by_root, default_level)

\* the positions of the items that fall in a group
ItemsInGroup(keys, group) == {i \in 1..Len(keys) : keys[i] = group}

RECURSIVE AmountOver(_, _)
\* the sum of the amounts of the items at a set of positions
AmountOver(items, positions) ==
    IF positions = {} THEN 0
    ELSE items[CHOOSE i \in positions : TRUE].amount
         + AmountOver(items, positions \ {CHOOSE i \in positions : TRUE})

FirstOf(positions) == CHOOSE i \in positions : \A j \in positions : i <= j

\* keys[i] is the group key of items[i]
GroupingAsSpecified(items, keys, grouped) ==
    /\ \A i \in 1..Len(items) :
         keys[i] # <<>> => \E j \in 1..Len(grouped) : grouped[j].group = keys[i]
    /\ \A j \in 1..Len(grouped) :
         /\ grouped[j].group # <<>>
         /\ ItemsInGroup(keys, grouped[j].group) # {}
         /\ grouped[j].amount
              = AmountOver(items, ItemsInGroup(keys, grouped[j].group))
         /\ grouped[j].root
              = Segments(items[FirstOf(ItemsInGroup(keys, grouped[j].group))]
                           .account_full_name)[1]
    /\ \A j, k \in 1..Len(grouped) :
         j < k => FirstOf(ItemsInGroup(keys, grouped[j].group))
                    < FirstOf(ItemsInGroup(keys, grouped[k].group))

----------------------------------------------------------------------------
(* C13: the groups of one side are its items' paths (the trimmed non-empty *)
(* segments of the account full name) cut at the root's focus depth, or at *)
(* the side's default level for a root without focus entry, clamped to     *)
(* 1..number of segments; items without segment are ignored, the amounts   *)
(* of the items of a group are summed, and the groups are in the order in  *)
(* which their key is first seen.                                          *)

C13_Grouping ==
    fresh =>
        /\ GroupingAsSpecified(view.incoming,
                               ExpectedGroups(view.incoming, state.left_focus,
                                              state.left_level_default),
                               LeftGroups(view, state))
        /\ GroupingAsSpecified(view.outgoing,
                               ExpectedGroups(view.outgoing,
                                              state.right_focus,
                                              state.right_level_default),
                               RightGroups(view, state))

\* a drilled-down root whose two items are summed in one group of depth 2
C13_Witness ==
    /\ fresh
    /\ state.left_focus # EmptyDict
    /\ Len(view.incoming) = 2
    /\ Len(LeftGroups(view, state)) = 1
    /\ Len(LeftGroups(view, state)[1].group) = 3
    /\ LeftGroups(view, state)[1].amount = 1 + MaxAmount

----------------------------------------------------------------------------
(* Python values of the conversion services.                               *)

RECURSIVE Gcd(_, _)
Gcd(a, b) == IF b = 0 THEN a ELSE Gcd(b, a % b)

\* the Decimal n / d, d # 0, in lowest terms with a positive denominator
Decimal(n, d) ==
    <<(IF d < 0 THEN 0 - n ELSE n) \div Gcd(Abs(n), Abs(d)),
      Abs(d) \div Gcd(Abs(n), Abs(d))>>

DecimalAdd(a, b) == Decimal(a[1] * b[2] + b[1] * a[2], a[2] * b[2])
DecimalSub(a, b) == Decimal(a[1] * b[2] - b[1] * a[2], a[2] * b[2])
DecimalMul(a, b) == Decimal(a[1] * b[1], a[2] * b[2])
\* a / b for b # 0
DecimalDiv(a, b) == Decimal(a[1] * b[2], a[2] * b[1])
DecimalAbs(a) == <<Abs(a[1]), a[2]>>
DecimalIsZero(a) == a[1] = 0
DecimalZero == Decimal(0, 1)

\* a value that may be None: None, or Some(value)
Some(value) == <<value>>

\* not value, for a str that may be None
Falsy(value) == value = None \/ value = Some(<<>>)

\* the words whose case the services convert
UpperWord(word) ==
    CASE word \in {"template", "Template"} -> "TEMPLATE"
      [] word \in {"currency", "Currency"} -> "CURRENCY"
      [] word = "eur" -> "EUR"
      [] word = "usd" -> "USD"
      [] OTHER -> word

LowerWord(word) ==
    CASE word \in {"TEMPLATE", "Template"} -> "template"
      [] word \in {"CURRENCY", "Currency"} -> "currency"
      [] word = "EUR" -> "eur"
      [] word = "USD" -> "usd"
      [] OTHER -> word

\* str.upper() and str.lower()
Upper(s) == [i \in 1..Len(s) |-> UpperWord(s[i])]
Lower(s) == [i \in 1..Len(s) |-> LowerWord(s[i])]

\* the exception of calling a method of None
AttributeError == <<"AttributeError">>

\* the warnings of the logger
ZERO_DENOMINATOR == "Skipping FX rate with zero denominator"
MISSING_COMMODITY == "Skipping account with missing commodity info"
MISSING_RATE == "Missing FX rate"

----------------------------------------------------------------------------
(* coerce_decimal and the price map.                                       *)

coerce_decimal(value) == IF value = None THEN DecimalZero ELSE value

\* variant: a later row of a commodity replaces the rate of an earlier one
PriceRowStep_Overwrite(acc, row) ==
    IF DecimalIsZero(coerce_decimal(row.value_denom))
    THEN [acc EXCEPT !.warnings = Append(@, ZERO_DENOMINATOR)]
    ELSE [acc EXCEPT !.rates =
              Put(@, row.commodity_guid,
                  DecimalDiv(coerce_decimal(row.value_num),
                             coerce_decimal(row.value_denom)))]

\* variant: a zero denominator falls back to a rate of zero
PriceRowStep_ZeroRate(acc, row) ==
    IF row.commodity_guid \in DOMAIN acc.rates THEN acc
    ELSE IF DecimalIsZero(coerce_decimal(row.value_denom))
    THEN [acc EXCEPT !.rates = Put(@, row.commodity_guid, DecimalZero)]
    ELSE [acc EXCEPT !.rates =
              Put(@, row.commodity_guid,
                  DecimalDiv(coerce_decimal(row.value_num),
                             coerce_decimal(row.value_denom)))]

\* lines 83-92: one row of the loop over the price rows
PriceRowStep(acc, row) ==
    IF row.commodity_guid \in DOMAIN acc.rates THEN acc
    ELSE IF DecimalIsZero(coerce_decimal(row.value_denom))
    THEN [acc EXCEPT !.warnings = Append(@, ZERO_DENOMINATOR)]
    ELSE [acc EXCEPT !.rates =
              Put(@, row.commodity_guid,
                  DecimalDiv(coerce_decimal(row.value_num),
                             coerce_decimal(row.value_denom)))]

RECURSIVE PriceLoop(_, _)
PriceLoop(acc, rows) ==
    IF rows = <<>> THEN acc
    ELSE PriceLoop(PriceRowStep(acc, rows[1]), Tail(rows))

\* the rates per commodity and the warnings logged
build_price_map(rows) ==
    PriceLoop([rates |-> EmptyDict, warnings |-> <<>>], rows)

----------------------------------------------------------------------------
(* convert_balance: the converted balance, None when the balance is        *)
(* skipped, or the exception raised; and the warnings logged.              *)

Converted(value, warnings) == [value |-> value, warnings |-> warnings]

\* lines 130-136: the rate of the commodity
ConvertByRate(balance, commodity_guid, rates) ==
    IF commodity_guid \notin DOMAIN rates
    THEN Converted(None, <<MISSING_RATE>>)
    ELSE Converted(DecimalMul(balance, rates[commodity_guid]), <<>>)

\* variant: the rate is looked up before the target currency is recognised
ConvertKnown_RateFirst(balance, commodity_guid, mnemonic, namespace, target_guid, target_currency, rates) ==
    IF commodity_guid \in DOMAIN rates
    THEN Converted(DecimalMul(balance, rates[commodity_guid]), <<>>)
    ELSE IF namespace = <<"CURRENCY">>
            /\ (commodity_guid = target_guid \/ mnemonic = target_currency)
    THEN Converted(balance, <<>>)
    ELSE Converted(None, <<MISSING_RATE>>)

\* lines 126-136, for a commodity that is not a template
ConvertKnown(balance, commodity_guid, mnemonic, namespace, target_guid, target_currency, rates) ==
    IF namespace = <<"CURRENCY">>
       /\ (commodity_guid = target_guid \/ mnemonic = target_currency)
    THEN Converted(balance, <<>>)
    ELSE ConvertByRate(balance, commodity_guid, rates)

\* lines 124-136, for a namespace that is a str
ConvertNamed(balance, commodity_guid, mnemonic, namespace, target_guid, target_currency, rates) ==
    IF Upper(namespace) = <<"TEMPLATE">> \/ Lower(mnemonic) = <<"template">>
    THEN Converted(None, <<>>)
    ELSE ConvertKnown(balance, commodity_guid, mnemonic, namespace,
                      target_guid, target_currency, rates)

\* commodity_guid, mnemonic and namespace may be None
convert_balance(balance, commodity_guid, mnemonic, namespace, target_guid, target_currency, rates) ==
    IF Falsy(commodity_guid) \/ Falsy(mnemonic)
    THEN Converted(None, <<MISSING_COMMODITY>>)
    ELSE IF namespace = None
    THEN Converted(AttributeError, <<>>)
    ELSE ConvertNamed(balance, commodity_guid[1], mnemonic[1], namespace[1],
                      target_guid, target_currency, rates)

----------------------------------------------------------------------------
(* Inputs of the conversion services.                                      *)

MaxRows == 3        \* price rows and balance rows of a run, together

EUR_GUID == <<"guid-eur">>
USD_GUID == <<"guid-usd">>
XYZ_GUID == <<"guid-xyz">>

\* the target currency of a run and its GUID (fetch_currency_guid)
TARGET_CURRENCY == <<"EUR">>
TARGET_GUID == EUR_GUID

\* the date of a price row is not read by the services
PriceRow(commodity_guid, value_num, value_denom) ==
    [commodity_guid |-> commodity_guid, value_num |-> value_num,
     value_denom |-> value_denom]

\* two prices of USD, 1/2 and 2, and one with a zero denominator; a price of
\* XYZ without denominator; a price of the target currency itself
PriceRows ==
    { PriceRow(USD_GUID, Decimal(1, 1), Decimal(2, 1)),
      PriceRow(USD_GUID, Decimal(2, 1), Decimal(1, 1)),
      PriceRow(USD_GUID, Decimal(2, 1), Decimal(0, 1)),
      PriceRow(XYZ_GUID, Decimal(2, 1), None),
      PriceRow(EUR_GUID, Decimal(3, 1), Decimal(1, 1)) }

PriceLists(n) == UNION {[1..k -> PriceRows] : k \in 0..n}

\* the arguments convert_balance is called with
Balances == {Decimal(5, 1), Decimal(0 - 3, 2)}

CommodityGuids ==
    {None, Some(<<>>), Some(EUR_GUID), Some(USD_GUID), Some(XYZ_GUID)}

Mnemonics ==
    {None, Some(<<>>), Some(<<"EUR">>), Some(<<"USD">>),
     Some(<<"template">>), Some(<<"Template">>)}

Namespaces ==
    {None, Some(<<>>), Some(<<"CURRENCY">>), Some(<<"currency">>),
     Some(<<"TEMPLATE">>), Some(<<"Template">>), Some(<<"NASDAQ">>)}

----------------------------------------------------------------------------
(* Normalisation and validation of a balance row.                          *)

\* normalize_namespace and normalize_mnemonic: stripped and upper-cased,
\* None for a missing or blank value
normalize_namespace(namespace) ==
    IF Falsy(namespace) THEN None
    ELSE IF Strip(namespace[1]) = <<>> THEN None
    ELSE Some(Upper(Strip(namespace[1])))

normalize_mnemonic(mnemonic) ==
    IF Falsy(mnemonic) THEN None
    ELSE IF Strip(mnemonic[1]) = <<>> THEN None
    ELSE Some(Upper(Strip(mnemonic[1])))

NEGATIVE_ASSET == "Asset balance is negative"
POSITIVE_LIABILITY == "Liability balance is positive"

\* the warnings validate_balance_sign logs; it returns nothing
validate_balance_sign(account_type, balance, asset_types, liability_types) ==
    (IF account_type \in asset_types /\ balance[1] < 0
     THEN <<NEGATIVE_ASSET>> ELSE <<>>)
    \o (IF account_type \in liability_types /\ balance[1] > 0
        THEN <<POSITIVE_LIABILITY>> ELSE <<>>)

DEFAULT_ASSET_TYPES ==
    {<<"ASSET">>, <<"BANK">>, <<"CASH">>, <<"STOCK">>, <<"MUTUAL">>,
     <<"RECEIVABLE">>}

DEFAULT_LIABILITY_TYPES == {<<"LIABILITY">>, <<"CREDIT">>, <<"PAYABLE">>}

----------------------------------------------------------------------------
(* compute_net_worth_summary: the summary returned or the exception        *)
(* raised, and the warnings logged.                                        *)

Computed(value, warnings) == [value |-> value, warnings |-> warnings]

\* a call that ends with an exception has no value
Raised(exception, warnings) == [raised |-> exception, warnings |-> warnings]

HasRaised(result) == "raised" \in DOMAIN result

NetWorthSummary(asset_total, liability_total, net_worth, currency_code) ==
    [asset_total |-> asset_total, liability_total |-> liability_total,
     net_worth |-> net_worth, currency_code |-> currency_code]

\* variant: a liability is accumulated with its sign
NetWorthAdd_Signed(acc, account_type, converted, asset_types) ==
    IF converted.value = AttributeError
    THEN [acc EXCEPT !.raised = converted.value,
                     !.warnings = @ \o converted.warnings]
    ELSE IF converted.value = None
    THEN [acc EXCEPT !.warnings = @ \o converted.warnings]
    ELSE IF account_type \in asset_types
    THEN [acc EXCEPT !.asset_total = DecimalAdd(@, converted.value)]
    ELSE [acc EXCEPT !.liability_total = DecimalAdd(@, converted.value)]

\* variant: a liability is subtracted from its total
NetWorthAdd_Subtracted(acc, account_type, converted, asset_types) ==
    IF converted.value = AttributeError
    THEN [acc EXCEPT !.raised = converted.value,
                     !.warnings = @ \o converted.warnings]
    ELSE IF converted.value = None
    THEN [acc EXCEPT !.warnings = @ \o converted.warnings]
    ELSE IF account_type \in asset_types
    THEN [acc EXCEPT !.asset_total = DecimalAdd(@, converted.value)]
    ELSE [acc EXCEPT !.liability_total =
              DecimalSub(@, DecimalAbs(converted.value))]

\* finance.py lines 77-82: the converted balance is accumulated
NetWorthAdd(acc, account_type, converted, asset_types) ==
    IF converted.value = AttributeError
    THEN [acc EXCEPT !.raised = converted.value,
                     !.warnings = @ \o converted.warnings]
    ELSE IF converted.value = None
    THEN [acc EXCEPT !.warnings = @ \o converted.warnings]
    ELSE IF account_type \in asset_types
    THEN [acc EXCEPT !.asset_total = DecimalAdd(@, converted.value)]
    ELSE [acc EXCEPT !.liability_total =
              DecimalAdd(@, DecimalAbs(converted.value))]

\* variant: a balance that violates the sign convention is rejected
NetWorthConvert_Rejecting(acc, row, asset_types, liability_types, currency_guid, target_currency) ==
    IF validate_balance_sign(row.account_type, coerce_decimal(row.balance),
                             asset_types, liability_types) # <<>>
    THEN [acc EXCEPT !.warnings =
              @ \o validate_balance_sign(row.account_type,
                                         coerce_decimal(row.balance),
                                         asset_types, liability_types)]
    ELSE NetWorthAdd(
             acc, row.account_type,
             convert_balance(coerce_decimal(row.balance), row.commodity_guid,
                             normalize_mnemonic(row.mnemonic),
                             normalize_namespace(row.namespace),
                             currency_guid, target_currency, acc.rates),
             asset_types)

\* lines 59-76: the balance is validated and converted
NetWorthConvert(acc, row, asset_types, liability_types, currency_guid, target_currency) ==
    NetWorthAdd(
        [acc EXCEPT !.warnings =
             @ \o validate_balance_sign(row.account_type,
                                        coerce_decimal(row.balance),
                                        asset_types, liability_types)],
        row.account_type,
        convert_balance(coerce_decimal(row.balance), row.commodity_guid,
                        normalize_mnemonic(row.mnemonic),
                        normalize_namespace(row.namespace),
                        currency_guid, target_currency, acc.rates),
        asset_types)

\* lines 52-82: one row of the loop; an exception ends the loop
NetWorthRowStep(acc, row, asset_types, liability_types, currency_guid, target_currency) ==
    IF acc.raised # None THEN acc
    ELSE IF row.account_type \notin asset_types
            /\ row.account_type \notin liability_types
    THEN acc
    ELSE NetWorthConvert(acc, row, asset_types, liability_types,
                         currency_guid, target_currency)

RECURSIVE NetWorthLoop(_, _, _, _, _, _)
NetWorthLoop(acc, rows, asset_types, liability_types, currency_guid, target_currency) ==
    IF rows = <<>> THEN acc
    ELSE NetWorthLoop(NetWorthRowStep(acc, rows[1], asset_types,
                                      liability_types, currency_guid,
                                      target_currency),
                      Tail(rows), asset_types, liability_types,
                      currency_guid, target_currency)

\* lines 48-50: the price map and the totals before the first row
NetWorthStart(price_map) ==
    [rates |-> price_map.rates, warnings |-> price_map.warnings,
     asset_total |-> DecimalZero, liability_total |-> DecimalZero,
     raised |-> None]

\* lines 84-90
NetWorthReturn(acc, target_currency) ==
    IF acc.raised # None THEN Raised(acc.raised, acc.warnings)
    ELSE Computed(NetWorthSummary(acc.asset_total, acc.liability_total,
                                  DecimalSub(acc.asset_total,
                                             acc.liability_total),
                                  target_currency),
                  acc.warnings)

compute_net_worth_summary(rows, price_rows, asset_types, liability_types, currency_guid, target_currency) ==
    NetWorthReturn(
        NetWorthLoop(NetWorthStart(build_price_map(price_rows)), rows,
                     asset_types, liability_types, currency_guid,
                     target_currency),
        target_currency)

----------------------------------------------------------------------------
(* compute_asset_category_breakdown: the breakdown returned or the         *)
(* exception raised, and the warnings logged.  A key of totals is          *)
(* <<parent_category, category>>, the parent None or Some(str).            *)

\* the exception of comparing None with a str
TypeError == <<"TypeError">>

\* the order of the code points of the first characters of the words used
\* in categories; no word is a prefix of another
WordRank(word) ==
    CASE word = SPACE -> 0
      [] word = "Actifs" -> 1
      [] word = "Banque" -> 2
      [] word = "Cash" -> 3
      [] word = "Invest" -> 4
      [] word = "actuels" -> 5
      [] OTHER -> 6

RECURSIVE StrLess(_, _)
\* a < b for two str
StrLess(a, b) ==
    IF b = <<>> THEN FALSE
    ELSE IF a = <<>> THEN TRUE
    ELSE IF a[1] = b[1] THEN StrLess(Tail(a), Tail(b))
    ELSE WordRank(a[1]) < WordRank(b[1])

\* a < b for two keys whose parents are both None or both str
KeyLess(a, b) ==
    IF a[1] # b[1]
    THEN a[1] # None /\ b[1] # None /\ StrLess(a[1][1], b[1][1])
    ELSE StrLess(a[2], b[2])

\* sorting compares a key without parent with a key with a parent
MixedParents(keys) ==
    \E a \in keys, b \in keys : a[1] = None /\ b[1] # None

RECURSIVE SortedKeys(_)
SortedKeys(keys) ==
    IF keys = {} THEN <<>>
    ELSE <<CHOOSE a \in keys : \A b \in keys \ {a} : KeyLess(a, b)>>
         \o SortedKeys(keys \ {CHOOSE a \in keys :
                                  \A b \in keys \ {a} : KeyLess(a, b)})

_resolve_category(row, level) ==
    IF level = 1 THEN row.actif_category
    ELSE IF level = 2 THEN row.actif_subcategory
    ELSE row.actif_category

AssetCategoryAmount(category, amount, parent_category) ==
    [category |-> category, amount |-> amount,
     parent_category |-> parent_category]

AssetCategoryBreakdown(currency_code, categories) ==
    [currency_code |-> currency_code, categories |-> categories]

\* variant: the converted balance replaces the amount of its key
BreakdownAdd_Overwrite(acc, key, converted) ==
    IF converted.value = AttributeError
    THEN [acc EXCEPT !.raised = converted.value,
                     !.warnings = @ \o converted.warnings]
    ELSE IF converted.value = None
    THEN [acc EXCEPT !.warnings = @ \o converted.warnings]
    ELSE [acc EXCEPT !.totals = Put(@, key, converted.value)]

\* finance.py lines 145-148: the converted balance is added to its key
BreakdownAdd(acc, key, converted) ==
    IF converted.value = AttributeError
    THEN [acc EXCEPT !.raised = converted.value,
                     !.warnings = @ \o converted.warnings]
    ELSE IF converted.value = None
    THEN [acc EXCEPT !.warnings = @ \o converted.warnings]
    ELSE [acc EXCEPT !.totals =
              Put(@, key, DecimalAdd(Get(@, key, DecimalZero),
                                     converted.value))]

\* variant: a balance that violates the sign convention is rejected
BreakdownConvert_Rejecting(acc, row, key, asset_types, currency_guid, target_currency) ==
    IF validate_balance_sign(row.account_type, coerce_decimal(row.balance),
                             asset_types, {}) # <<>>
    THEN [acc EXCEPT !.warnings =
              @ \o validate_balance_sign(row.account_type,
                                         coerce_decimal(row.balance),
                                         asset_types, {})]
    ELSE BreakdownAdd(
             acc, key,
             convert_balance(coerce_decimal(row.balance), row.commodity_guid,
                             normalize_mnemonic(row.mnemonic),
                             normalize_namespace(row.namespace),
                             currency_guid, target_currency, acc.rates))

\* lines 127-144: the balance is validated and converted
BreakdownConvert(acc, row, key, asset_types, currency_guid, target_currency) ==
    BreakdownAdd(
        [acc EXCEPT !.warnings =
             @ \o validate_balance_sign(row.account_type,
                                        coerce_decimal(row.balance),
                                        asset_types, {})],
        key,
        convert_balance(coerce_decimal(row.balance), row.commodity_guid,
                        normalize_mnemonic(row.mnemonic),
                        normalize_namespace(row.namespace),
                        currency_guid, target_currency, acc.rates))

\* variant: the subcategories are keyed without their parent
BreakdownRowStep_NoParent(acc, row, asset_types, currency_guid, target_currency, level) ==
    IF acc.raised # None THEN acc
    ELSE IF row.account_type \notin asset_types THEN acc
    ELSE IF Falsy(_resolve_category(row, level)) THEN acc
    ELSE BreakdownConvert(acc, row,
                          <<None, _resolve_category(row, level)[1]>>,
                          asset_types, currency_guid, target_currency)

\* lines 119-148: one row of the loop; an exception ends the loop
BreakdownRowStep(acc, row, asset_types, currency_guid, target_currency, level) ==
    IF acc.raised # None THEN acc
    ELSE IF row.account_type \notin asset_types THEN acc
    ELSE IF Falsy(_resolve_category(row, level)) THEN acc
    ELSE BreakdownConvert(acc, row,
                          <<IF level = 2 THEN row.actif_category ELSE None,
                            _resolve_category(row, level)[1]>>,
                          asset_types, currency_guid, target_currency)

RECURSIVE BreakdownLoop(_, _, _, _, _, _)
BreakdownLoop(acc, rows, asset_types, currency_guid, target_currency, level) ==
    IF rows = <<>> THEN acc
    ELSE BreakdownLoop(BreakdownRowStep(acc, rows[1], asset_types,
                                        currency_guid, target_currency,
                                        level),
                       Tail(rows), asset_types, currency_guid,
                       target_currency, level)

\* lines 117-118
BreakdownStart(price_map) ==
    [rates |-> price_map.rates, warnings |-> price_map.warnings,
     totals |-> EmptyDict, raised |-> None]

\* lines 150-157: the amounts in the order of their keys
BreakdownCategories(totals, keys) ==
    [i \in 1..Len(keys) |->
        AssetCategoryAmount(keys[i][2], totals[keys[i]], keys[i][1])]

\* lines 150-162
BreakdownReturn(acc, target_currency) ==
    IF acc.raised # None THEN Raised(acc.raised, acc.warnings)
    ELSE IF MixedParents(DOMAIN acc.totals)
    THEN Raised(TypeError, acc.warnings)
    ELSE Computed(AssetCategoryBreakdown(
                      target_currency,
                      BreakdownCategories(acc.totals,
                                          SortedKeys(DOMAIN acc.totals))),
                  acc.warnings)

compute_asset_category_breakdown(rows, price_rows, asset_types, currency_guid, target_currency, level) ==
    BreakdownReturn(
        BreakdownLoop(BreakdownStart(build_price_map(price_rows)), rows,
                      asset_types, currency_guid, target_currency, level),
        target_currency)

----------------------------------------------------------------------------
(* The rows and the runs of the conversion services.                       *)

\* a NetWorthBalanceRow or an AssetCategoryBalanceRow: the net worth reads
\* no category
BalanceRow(account_type, commodity_guid, mnemonic, namespace, actif_category, actif_subcategory, balance) ==
    [account_type |-> account_type, commodity_guid |-> commodity_guid,
     mnemonic |-> mnemonic, namespace |-> namespace,
     actif_category |-> actif_category,
     actif_subcategory |-> actif_subcategory, balance |-> balance]

ACTIFS == <<"Actifs", SPACE, "actuels">>
INVEST == <<"Invest">>

\* an asset in USD; a liability in the target currency; an overdrawn bank
\* account whose mnemonic and namespace need normalising; an income row;
\* rows without namespace, without commodity, of a template commodity that
\* has a rate, and of a commodity without rate; a liability with a positive
\* balance in USD; an asset with a subcategory and no category
BalanceRows ==
    { BalanceRow(<<"ASSET">>, Some(USD_GUID), Some(<<"USD">>),
                 Some(<<"CURRENCY">>), Some(ACTIFS), Some(<<"Banque">>),
                 Decimal(2, 1)),
      BalanceRow(<<"LIABILITY">>, Some(EUR_GUID), Some(<<"EUR">>),
                 Some(<<"CURRENCY">>), None, None, Decimal(0 - 3, 1)),
      BalanceRow(<<"BANK">>, Some(EUR_GUID), Some(<<SPACE, "eur">>),
                 Some(<<"currency", SPACE>>), Some(ACTIFS), Some(<<"Cash">>),
                 Decimal(0 - 1, 1)),
      BalanceRow(<<"INCOME">>, Some(EUR_GUID), Some(<<"EUR">>),
                 Some(<<"CURRENCY">>), None, None, Decimal(5, 1)),
      BalanceRow(<<"CASH">>, Some(USD_GUID), Some(<<"USD">>), None,
                 Some(ACTIFS), Some(<<"Cash">>), Decimal(1, 1)),
      BalanceRow(<<"ASSET">>, None, Some(<<"EUR">>), Some(<<"CURRENCY">>),
                 Some(ACTIFS), Some(<<"Banque">>), Decimal(1, 1)),
      BalanceRow(<<"STOCK">>, Some(USD_GUID), Some(<<"USD">>),
                 Some(<<"Template">>), Some(INVEST), Some(<<"Banque">>),
                 Decimal(1, 1)),
      BalanceRow(<<"STOCK">>, Some(XYZ_GUID), Some(<<"XYZ">>),
                 Some(<<"NASDAQ">>), Some(INVEST), Some(<<"Cash">>),
                 Decimal(1, 1)),
      BalanceRow(<<"CREDIT">>, Some(USD_GUID), Some(<<"USD">>),
                 Some(<<"CURRENCY">>), None, None, Decimal(1, 1)),
      BalanceRow(<<"ASSET">>, Some(EUR_GUID), Some(<<"EUR">>),
                 Some(<<"CURRENCY">>), None, Some(<<"Cash">>),
                 Decimal(1, 2)) }

BalanceLists(n) == UNION {[1..k -> BalanceRows] : k \in 0..n}

\* the levels of the breakdown
Levels == {1, 2}

FxInit ==
    /\ \E p \in PriceLists(MaxRows), b \in BalanceLists(MaxRows) :
         /\ Len(p) + Len(b) <= MaxRows
         /\ prices = p
         /\ balances = b
    /\ cashflow_rows = <<>>
    /\ fx_call = NoCall
    /\ view = CashflowView(<<>>, <<>>)
    /\ state = SankeyState(1, 1)
    /\ model = NoModel
    /\ fresh = FALSE
    /\ op = "init"
    /\ clicked = 0
    /\ ret = FALSE

\* A run is one call of one service on the rows the repository returned:
\* the services keep no state between calls.

\* the price map of the price rows
BuildPriceMap ==
    /\ fx_call = NoCall
    /\ fx_call' = [name |-> "build_price_map",
                   result |-> build_price_map(prices)]
    /\ UNCHANGED <<prices, balances, cashflow_rows>>
    /\ UNCHANGED sankey_vars

\* one conversion with the rates of the price rows
ConvertBalance ==
    /\ fx_call = NoCall
    /\ balances = <<>>
    /\ \E balance \in Balances, commodity_guid \in CommodityGuids,
          mnemonic \in Mnemonics, namespace \in Namespaces :
         fx_call' = [name |-> "convert_balance",
                     balance |-> balance,
                     commodity_guid |-> commodity_guid,
                     mnemonic |-> mnemonic,
                     namespace |-> namespace,
                     result |-> convert_balance(
                                    balance, commodity_guid, mnemonic,
                                    namespace, TARGET_GUID, TARGET_CURRENCY,
                                    build_price_map(prices).rates)]
    /\ UNCHANGED <<prices, balances, cashflow_rows>>
    /\ UNCHANGED sankey_vars

ComputeNetWorth ==
    /\ fx_call = NoCall
    /\ fx_call' = [name |-> "compute_net_worth_summary",
                   result |-> compute_net_worth_summary(
                                  balances, prices, DEFAULT_ASSET_TYPES,
                                  DEFAULT_LIABILITY_TYPES, TARGET_GUID,
                                  TARGET_CURRENCY)]
    /\ UNCHANGED <<prices, balances, cashflow_rows>>
    /\ UNCHANGED sankey_vars

ComputeAssetCategoryBreakdown ==
    /\ fx_call = NoCall
    /\ \E level \in Levels :
         fx_call' = [name |-> "compute_asset_category_breakdown",
                     level |-> level,
                     result |-> compute_asset_category_breakdown(
                                    balances, prices, DEFAULT_ASSET_TYPES,
                                    TARGET_GUID, TARGET_CURRENCY, level)]
    /\ UNCHANGED <<prices, balances, cashflow_rows>>
    /\ UNCHANGED sankey_vars

FxNext ==
    \/ BuildPriceMap
    \/ ConvertBalance
    \/ ComputeNetWorth
    \/ ComputeAssetCategoryBreakdown

FxSpec == FxInit /\ [][FxNext]_vars

----------------------------------------------------------------------------
(* GetCashflowUseCase.execute (get_cashflow.py lines 36-136): the rows of   *)
(* the repository are aggregated per account into the incoming and the     *)
(* outgoing items of a CashflowView. Amounts are Decimals as above.         *)

CashflowRow(account_guid, account_full_name, top_parent_name, amount) ==
    [account_guid |-> account_guid, account_full_name |-> account_full_name,
     top_parent_name |-> top_parent_name, amount |-> amount]

\* the item and the view of execute, with all their fields
CashflowItemOf(account_full_name, amount, top_parent_name) ==
    [account_full_name |-> account_full_name, amount |-> amount,
     top_parent_name |-> top_parent_name]

CashflowViewOf(total_in, total_out, currency_code, incoming, outgoing) ==
    [summary |-> [total_in |-> total_in, total_out |-> total_out,
                  currency_code |-> currency_code],
     incoming |-> incoming, outgoing |-> outgoing]

\* CashflowSummary.difference
SummaryDifference(summary) == DecimalSub(summary.total_in, summary.total_out)

\* lines 79-90: the first amount of an account, or one more
Accumulate(totals, order, account_guid, amount) ==
    IF account_guid \notin DOMAIN totals
    THEN [totals |-> Put(totals, account_guid, amount),
          order |-> Append(order, account_guid)]
    ELSE [totals |-> Put(totals, account_guid,
                         DecimalAdd(totals[account_guid], amount)),
          order |-> order]

\* lines 74-78: the names of an account are those of its first row
Remember(metadata, row) ==
    IF row.account_guid \in DOMAIN metadata THEN metadata
    ELSE Put(metadata, row.account_guid,
             <<row.account_full_name, row.top_parent_name>>)

\* variant: an outflow of an account that has an inflow is netted
CashflowRowStep_Netted(acc, row) ==
    IF DecimalIsZero(coerce_decimal(row.amount)) THEN acc
    ELSE IF coerce_decimal(row.amount)[1] > 0
            \/ row.account_guid \in DOMAIN acc.incoming_totals
    THEN [acc EXCEPT
            !.metadata = Remember(@, row),
            !.incoming_totals =
                Accumulate(acc.incoming_totals, acc.incoming_order,
                           row.account_guid,
                           coerce_decimal(row.amount)).totals,
            !.incoming_order =
                Accumulate(acc.incoming_totals, acc.incoming_order,
                           row.account_guid,
                           coerce_decimal(row.amount)).order]
    ELSE [acc EXCEPT
            !.metadata = Remember(@, row),
            !.outgoing_totals =
                Accumulate(acc.outgoing_totals, acc.outgoing_order,
                           row.account_guid,
                           DecimalAbs(coerce_decimal(row.amount))).totals,
            !.outgoing_order =
                Accumulate(acc.outgoing_totals, acc.outgoing_order,
                           row.account_guid,
                           DecimalAbs(coerce_decimal(row.amount))).order]

\* lines 70-90: one row of the loop
CashflowRowStep(acc, row) ==
    IF DecimalIsZero(coerce_decimal(row.amount)) THEN acc
    ELSE IF coerce_decimal(row.amount)[1] > 0
    THEN [acc EXCEPT
            !.metadata = Remember(@, row),
            !.incoming_totals =
                Accumulate(acc.incoming_totals, acc.incoming_order,
                           row.account_guid,
                           coerce_decimal(row.amount)).totals,
            !.incoming_order =
                Accumulate(acc.incoming_totals, acc.incoming_order,
                           row.account_guid,
                           coerce_decimal(row.amount)).order]
    ELSE [acc EXCEPT
            !.metadata = Remember(@, row),
            !.outgoing_totals =
                Accumulate(acc.outgoing_totals, acc.outgoing_order,
                           row.account_guid,
                           DecimalAbs(coerce_decimal(row.amount))).totals,
            !.outgoing_order =
                Accumulate(acc.outgoing_totals, acc.outgoing_order,
                           row.account_guid,
                           DecimalAbs(coerce_decimal(row.amount))).order]

RECURSIVE CashflowLoop(_, _)
CashflowLoop(acc, rows) ==
    IF rows = <<>> THEN acc
    ELSE CashflowLoop(CashflowRowStep(acc, rows[1]), Tail(rows))

\* lines 65-69
CashflowStart ==
    [incoming_totals |-> EmptyDict, outgoing_totals |-> EmptyDict,
     incoming_order |-> <<>>, outgoing_order |-> <<>>,
     metadata |-> EmptyDict]

RECURSIVE CashflowItems(_, _, _)
\* lines 96-108 and 109-121: the items of the accounts in their order, an
\* account whose total is zero left out
CashflowItems(order, totals, metadata) ==
    IF order = <<>> THEN <<>>
    ELSE IF DecimalIsZero(Get(totals, order[1], DecimalZero))
    THEN CashflowItems(Tail(order), totals, metadata)
    ELSE <<CashflowItemOf(metadata[order[1]][1],
                          Get(totals, order[1], DecimalZero),
                          metadata[order[1]][2])>>
         \o CashflowItems(Tail(order), totals, metadata)

RECURSIVE TotalOf(_)
\* total_in += amount, total_out += amount
TotalOf(items) ==
    IF items = <<>> THEN DecimalZero
    ELSE DecimalAdd(items[1].amount, TotalOf(Tail(items)))

\* lines 123-136
CashflowReturn(incoming, outgoing, target_currency) ==
    CashflowViewOf(TotalOf(incoming), TotalOf(outgoing), target_currency,
                   incoming, outgoing)

CashflowAggregate(acc, target_currency) ==
    CashflowReturn(
        CashflowItems(acc.incoming_order, acc.incoming_totals, acc.metadata),
        CashflowItems(acc.outgoing_order, acc.outgoing_totals, acc.metadata),
        target_currency)

\* execute on the rows fetch_cashflow_rows returned
execute(rows, target_currency) ==
    CashflowAggregate(CashflowLoop(CashflowStart, rows), target_currency)

\* the most rows of a call
MaxCashflowRows == 3

\* rows of three accounts; the first is renamed between two rows and the
\* third has its name; amounts of both signs, a zero and a missing amount
CashflowRows ==
    { CashflowRow(<<"guid-a">>, <<"A", COLON, "B">>, Some(<<"A">>),
                  Decimal(2, 1)),
      CashflowRow(<<"guid-a">>, <<"A", COLON, "C">>, Some(<<"A">>),
                  Decimal(0 - 1, 2)),
      CashflowRow(<<"guid-a">>, <<"A", COLON, "B">>, Some(<<"A">>),
                  Decimal(0, 1)),
      CashflowRow(<<"guid-b">>, <<"X">>, None, Decimal(1, 1)),
      CashflowRow(<<"guid-b">>, <<"X">>, None, Decimal(0 - 2, 1)),
      CashflowRow(<<"guid-b">>, <<"X">>, None, None),
      CashflowRow(<<"guid-c">>, <<"A", COLON, "B">>, Some(<<"A">>),
                  Decimal(1, 1)) }

CashflowRowLists(n) == UNION {[1..k -> CashflowRows] : k \in 0..n}

CashflowInit ==
    /\ cashflow_rows \in CashflowRowLists(MaxCashflowRows)
    /\ prices = <<>>
    /\ balances = <<>>
    /\ fx_call = NoCall
    /\ view = CashflowView(<<>>, <<>>)
    /\ state = SankeyState(1, 1)
    /\ model = NoModel
    /\ fresh = FALSE
    /\ op = "init"
    /\ clicked = 0
    /\ ret = FALSE

Execute ==
    /\ fx_call = NoCall
    /\ fx_call' = [name |-> "execute",
                   result |-> execute(cashflow_rows, TARGET_CURRENCY)]
    /\ UNCHANGED <<prices, balances, cashflow_rows>>
    /\ UNCHANGED sankey_vars

CashflowNext == Execute

CashflowSpec == CashflowInit /\ [][CashflowNext]_vars

----------------------------------------------------------------------------
(* Vocabulary of the properties of the price map.                          *)

\* the positions of the rows of a commodity
RowsOf(rows, commodity_guid) ==
    {i \in 1..Len(rows) : rows[i].commodity_guid = commodity_guid}

\* the denominator of the row does not coerce to zero
ValidRow(row) == row.value_denom # None /\ row.value_denom[1] # 0

\* numerator / denominator of a valid row
RateOfRow(row) ==
    DecimalDiv(IF row.value_num = None THEN DecimalZero ELSE row.value_num,
               row.value_denom)

\* the positions of the valid rows of a commodity
ValidRowsOf(rows, commodity_guid) ==
    {i \in RowsOf(rows, commodity_guid) : ValidRow(rows[i])}

\* the commodities of the rows
CommoditiesOf(rows) == {rows[i].commodity_guid : i \in 1..Len(rows)}

----------------------------------------------------------------------------
(* C14, as stated: the rate stored for a commodity is the rate of the      *)
(* first row of that commodity in input order, whatever the later rows of  *)
(* the commodity are.                                                      *)

C14_FirstRowKept ==
    fx_call.name = "build_price_map" =>
        \A guid \in DOMAIN fx_call.result.rates :
            /\ ValidRow(prices[FirstOf(RowsOf(prices, guid))])
            /\ fx_call.result.rates[guid]
                 = RateOfRow(prices[FirstOf(RowsOf(prices, guid))])

(* C14, amended: the rate stored for a commodity is the rate of the first  *)
(* row of that commodity, in input order, whose denominator does not       *)
(* coerce to zero, and every row after that one is ignored: the price map  *)
(* of every prefix of the input that contains that row holds the same rate *)
(* for the commodity.                                                      *)

C14_FirstValidRowKept ==
    fx_call.name = "build_price_map" =>
        \A guid \in DOMAIN fx_call.result.rates :
            /\ ValidRowsOf(prices, guid) # {}
            /\ fx_call.result.rates[guid]
                 = RateOfRow(prices[FirstOf(ValidRowsOf(prices, guid))])
            /\ \A k \in FirstOf(ValidRowsOf(prices, guid))..Len(prices) :
                 /\ guid \in DOMAIN build_price_map(SubSeq(prices, 1, k)).rates
                 /\ build_price_map(SubSeq(prices, 1, k)).rates[guid]
                      = fx_call.result.rates[guid]

\* the map of three USD rows: the rate 1/2 of the first row is stored, the
\* later rows have other rates
C14_Witness ==
    /\ fx_call.name = "build_price_map"
    /\ Len(prices) = 3
    /\ \A i \in 1..3 : prices[i].commodity_guid = USD_GUID
    /\ RateOfRow(prices[1]) = Decimal(1, 2)
    /\ ValidRow(prices[2]) /\ RateOfRow(prices[2]) = Decimal(2, 1)
    /\ fx_call.result.rates[USD_GUID] = Decimal(1, 2)

----------------------------------------------------------------------------
(* C15: the price map holds a rate exactly for the commodities that have   *)
(* a row whose denominator does not coerce to zero; the rate is numerator  *)
(* / denominator of the first such row of the commodity, no rate comes     *)
(* from a row with a zero denominator, each such row that is reached is    *)
(* logged, and the call returns a map.                                     *)

C15_ZeroDenominatorSkipped ==
    fx_call.name = "build_price_map" =>
        /\ DOMAIN fx_call.result.rates
             = {guid \in CommoditiesOf(prices) :
                   ValidRowsOf(prices, guid) # {}}
        /\ \A guid \in DOMAIN fx_call.result.rates :
             \E i \in ValidRowsOf(prices, guid) :
                /\ fx_call.result.rates[guid] = RateOfRow(prices[i])
                /\ fx_call.result.rates[guid][2] > 0
                /\ \A j \in RowsOf(prices, guid) :
                     j < i => ~ValidRow(prices[j])
        /\ Len(fx_call.result.warnings)
             = Cardinality({j \in 1..Len(prices) :
                   /\ ~ValidRow(prices[j])
                   /\ \A i \in ValidRowsOf(prices, prices[j].commodity_guid) :
                        j < i})

\* a zero denominator and a missing denominator first, a valid USD row last:
\* USD has the rate of the last row and XYZ has no rate
C15_Witness ==
    /\ fx_call.name = "build_price_map"
    /\ Len(prices) = 3
    /\ prices[1].commodity_guid = USD_GUID /\ ~ValidRow(prices[1])
    /\ prices[2].commodity_guid = XYZ_GUID /\ ~ValidRow(prices[2])
    /\ prices[3].commodity_guid = USD_GUID /\ ValidRow(prices[3])
    /\ DOMAIN fx_call.result.rates = {USD_GUID}
    /\ fx_call.result.rates[USD_GUID] = RateOfRow(prices[3])
    /\ Len(fx_call.result.warnings) = 2

----------------------------------------------------------------------------
(* convert_balance: the target currency.                                   *)

\* the call converted an amount of a commodity whose id is present, in the
\* currency namespace, with the mnemonic of the target currency
TargetCurrencyCall ==
    /\ fx_call.name = "convert_balance"
    /\ ~Falsy(fx_call.commodity_guid)
    /\ fx_call.namespace = Some(<<"CURRENCY">>)
    /\ fx_call.mnemonic = Some(TARGET_CURRENCY)

----------------------------------------------------------------------------
(* convert_balance: the order of the rules.                                *)

\* the rules in the order of their statement, for the arguments of a call:
\* the skipped result is None
SkippedFirst(call) == Falsy(call.commodity_guid) \/ Falsy(call.mnemonic)

TemplateNamed(call) ==
    \/ call.namespace # None /\ Upper(call.namespace[1]) = <<"TEMPLATE">>
    \/ call.mnemonic = Some(<<"template">>)

TargetNamed(call) ==
    /\ call.namespace = Some(<<"CURRENCY">>)
    /\ \/ call.commodity_guid = Some(TARGET_GUID)
       \/ call.mnemonic = Some(TARGET_CURRENCY)

RuleResult(call, rates) ==
    IF SkippedFirst(call) THEN None
    ELSE IF TemplateNamed(call) THEN None
    ELSE IF TargetNamed(call) THEN call.balance
    ELSE IF call.commodity_guid[1] \notin DOMAIN rates THEN None
    ELSE DecimalMul(call.balance, rates[call.commodity_guid[1]])

\* C17: for every input convert_balance applies its rules in this order:
\* (1) a missing commodity id or mnemonic is skipped; (2) otherwise a
\* namespace equal to TEMPLATE case-insensitively, or a mnemonic equal to
\* "template", is skipped; (3) otherwise the currency namespace with the
\* target's id or the target's mnemonic gives the balance unchanged;
\* (4) otherwise an id absent from the rates is skipped and a present one
\* gives balance * rate.
C17_RulePrecedence ==
    fx_call.name = "convert_balance" =>
        fx_call.result.value
          = RuleResult(fx_call, build_price_map(prices).rates)

----------------------------------------------------------------------------
(* compute_net_worth_summary: the totals.                                  *)

\* the converted balance of a row, None when the row is skipped
ConvertedOf(row, rates) ==
    convert_balance(coerce_decimal(row.balance), row.commodity_guid,
                    normalize_mnemonic(row.mnemonic),
                    normalize_namespace(row.namespace),
                    TARGET_GUID, TARGET_CURRENCY, rates).value

\* the rows of the given account types that are converted
ConvertedRows(rows, types, rates) ==
    {i \in 1..Len(rows) :
        /\ rows[i].account_type \in types
        /\ ConvertedOf(rows[i], rates) # None}

\* the sum of the converted balances of the rows at the given positions,
\* of their absolute values when absolute is TRUE
RECURSIVE SumConverted(_, _, _, _)
SumConverted(rows, positions, rates, absolute) ==
    IF positions = {} THEN DecimalZero
    ELSE LET i == FirstOf(positions)
             converted == ConvertedOf(rows[i], rates)
         IN  DecimalAdd(IF absolute THEN DecimalAbs(converted) ELSE converted,
                        SumConverted(rows, positions \ {i}, rates, absolute))

\* the call returned a summary
SummaryReturned ==
    /\ fx_call.name = "compute_net_worth_summary"
    /\ ~HasRaised(fx_call.result)

\* C18: in every returned summary asset_total is the sum of the converted
\* balances of the asset rows, liability_total is the sum of the absolute
\* values of the converted balances of the liability rows, rows of any other
\* account type contribute nothing, and net_worth is asset_total minus
\* liability_total.
C18_Totals ==
    SummaryReturned =>
        LET rates == build_price_map(prices).rates
            summary == fx_call.result.value
        IN  /\ summary.asset_total
                 = SumConverted(balances,
                       ConvertedRows(balances, DEFAULT_ASSET_TYPES, rates),
                       rates, FALSE)
            /\ summary.liability_total
                 = SumConverted(balances,
                       ConvertedRows(balances, DEFAULT_LIABILITY_TYPES, rates),
                       rates, TRUE)
            /\ summary.net_worth
                 = DecimalSub(summary.asset_total, summary.liability_total)
            /\ summary.currency_code = TARGET_CURRENCY

\* an asset row, a liability row with a negative balance and a row of
\* another account type: the liability counts with its absolute value and
\* the third row with nothing
C18_Witness ==
    /\ SummaryReturned
    /\ Len(balances) = 3
    /\ balances[1].account_type = <<"ASSET">>
    /\ balances[2].account_type = <<"LIABILITY">>
    /\ balances[3].account_type = <<"INCOME">>
    /\ fx_call.result.value.asset_total = Decimal(1, 2)
    /\ fx_call.result.value.liability_total = Decimal(3, 1)
    /\ fx_call.result.value.net_worth = Decimal(0 - 5, 2)

----------------------------------------------------------------------------
(* compute_net_worth_summary: the signs of the totals.                     *)

DecimalIsNegative(a) == a[1] < 0

\* the asset rows whose converted balance is negative
NegativeAssetRows(rows, rates) ==
    {i \in ConvertedRows(rows, DEFAULT_ASSET_TYPES, rates) :
        DecimalIsNegative(ConvertedOf(rows[i], rates))}

\* C19: in every returned summary asset_total and liability_total are both
\* non-negative.
C19_TotalsNonNegative ==
    SummaryReturned =>
        /\ ~DecimalIsNegative(fx_call.result.value.asset_total)
        /\ ~DecimalIsNegative(fx_call.result.value.liability_total)

\* C19, amended: in every returned summary liability_total is non-negative,
\* and asset_total is non-negative unless an asset row has a negative
\* converted balance: such a row is accumulated with its sign.
C19_LiabilityNonNegative ==
    SummaryReturned =>
        /\ ~DecimalIsNegative(fx_call.result.value.liability_total)
        /\ NegativeAssetRows(balances, build_price_map(prices).rates) = {}
             => ~DecimalIsNegative(fx_call.result.value.asset_total)

\* an overdrawn bank account next to a smaller asset and a liability: the
\* asset total is negative, the liability total is positive
C19_Witness ==
    /\ SummaryReturned
    /\ NegativeAssetRows(balances, build_price_map(prices).rates) # {}
    /\ DecimalIsNegative(fx_call.result.value.asset_total)
    /\ fx_call.result.value.liability_total = Decimal(3, 1)
    /\ \E i \in 1..Len(balances) :
          /\ balances[i].account_type \in DEFAULT_ASSET_TYPES
          /\ ~DecimalIsNegative(coerce_decimal(balances[i].balance))
          /\ ConvertedOf(balances[i], build_price_map(prices).rates) # None

----------------------------------------------------------------------------
(* One bad row.                                                            *)

\* commodity id, mnemonic or namespace absent or empty
MissingMetadata(row) ==
    \/ Falsy(row.commodity_guid)
    \/ Falsy(row.mnemonic)
    \/ Falsy(row.namespace)

TemplateNamespace(row) ==
    /\ row.namespace # None
    /\ Upper(row.namespace[1]) = <<"TEMPLATE">>

\* the metadata is there, the commodity is neither a template nor the
\* target currency, and the rates have no entry for it
NoRate(row, rates) ==
    /\ ~MissingMetadata(row)
    /\ ~TemplateNamespace(row)
    /\ normalize_namespace(row.namespace) # None
    /\ convert_balance(coerce_decimal(row.balance), row.commodity_guid,
                       normalize_mnemonic(row.mnemonic),
                       normalize_namespace(row.namespace), TARGET_GUID,
                       TARGET_CURRENCY, rates).warnings = <<MISSING_RATE>>

BadRow(row, rates) ==
    MissingMetadata(row) \/ TemplateNamespace(row) \/ NoRate(row, rates)

RemoveAt(rows, i) == SubSeq(rows, 1, i - 1) \o SubSeq(rows, i + 1, Len(rows))

\* two calls end the same way: the same exception, or the same value
SameOutcome(with, without) ==
    /\ HasRaised(with) = HasRaised(without)
    /\ IF HasRaised(with) THEN with.raised = without.raised
       ELSE with.value = without.value

\* the outcome of the call on the rows without the one at position i
WithoutRow(i) ==
    IF fx_call.name = "compute_net_worth_summary"
    THEN compute_net_worth_summary(RemoveAt(balances, i), prices,
                                   DEFAULT_ASSET_TYPES,
                                   DEFAULT_LIABILITY_TYPES, TARGET_GUID,
                                   TARGET_CURRENCY)
    ELSE compute_asset_category_breakdown(RemoveAt(balances, i), prices,
                                          DEFAULT_ASSET_TYPES, TARGET_GUID,
                                          TARGET_CURRENCY, fx_call.level)

\* C20: compute_net_worth_summary and compute_asset_category_breakdown never
\* raise because of one bad row: a row with missing commodity metadata, a
\* template namespace or no FX rate contributes nothing, and the call ends
\* as it does on the rows without that row.
C20_BadRowIgnored ==
    fx_call.name \in {"compute_net_worth_summary",
                      "compute_asset_category_breakdown"} =>
        \A i \in 1..Len(balances) :
            BadRow(balances[i], build_price_map(prices).rates)
              => SameOutcome(fx_call.result, WithoutRow(i))

----------------------------------------------------------------------------
(* The sign convention.                                                    *)

IsMember(x, seq) == \E k \in 1..Len(seq) : seq[k] = x

\* an asset row with a negative balance, a liability row with a positive one
NegativeAsset(row) ==
    /\ row.account_type \in DEFAULT_ASSET_TYPES
    /\ DecimalIsNegative(coerce_decimal(row.balance))

PositiveLiability(row) ==
    /\ row.account_type \in DEFAULT_LIABILITY_TYPES
    /\ coerce_decimal(row.balance)[1] > 0

\* what a row of the given types adds to their total: its converted balance,
\* its absolute value when absolute is TRUE, nothing when it is skipped
Contribution(row, types, rates, absolute) ==
    IF row.account_type \notin types \/ ConvertedOf(row, rates) = None
    THEN DecimalZero
    ELSE IF absolute THEN DecimalAbs(ConvertedOf(row, rates))
    ELSE ConvertedOf(row, rates)

\* C21: a balance that violates the sign convention only triggers a warning:
\* the row is converted and accumulated like a conforming row, into
\* asset_total with its sign or into liability_total as an absolute value.
C21_SignViolationAccumulated ==
    SummaryReturned =>
        \A i \in 1..Len(balances) :
            NegativeAsset(balances[i]) \/ PositiveLiability(balances[i]) =>
                LET rates == build_price_map(prices).rates
                    without == WithoutRow(i).value
                IN  /\ IsMember(IF NegativeAsset(balances[i])
                                THEN NEGATIVE_ASSET ELSE POSITIVE_LIABILITY,
                                fx_call.result.warnings)
                    /\ fx_call.result.value.asset_total
                         = DecimalAdd(without.asset_total,
                               Contribution(balances[i], DEFAULT_ASSET_TYPES,
                                            rates, FALSE))
                    /\ fx_call.result.value.liability_total
                         = DecimalAdd(without.liability_total,
                               Contribution(balances[i],
                                            DEFAULT_LIABILITY_TYPES,
                                            rates, TRUE))

\* an overdrawn bank account and a credit account with a positive balance
\* converted by a rate: both are warned about and both are in the totals
C21_Witness ==
    /\ SummaryReturned
    /\ Len(balances) = 2
    /\ NegativeAsset(balances[1])
    /\ PositiveLiability(balances[2])
    /\ fx_call.result.warnings = <<NEGATIVE_ASSET, POSITIVE_LIABILITY>>
    /\ fx_call.result.value.asset_total = Decimal(0 - 1, 1)
    /\ fx_call.result.value.liability_total = Decimal(2, 1)

\* a call of one of the two aggregations
AggregationCall ==
    fx_call.name \in {"compute_net_worth_summary",
                      "compute_asset_category_breakdown"}

BreakdownReturned ==
    /\ fx_call.name = "compute_asset_category_breakdown"
    /\ ~HasRaised(fx_call.result)

\* the key of an asset row with a category at the given level
RowKey(row, level) ==
    <<IF level = 2 THEN row.actif_category ELSE None,
      _resolve_category(row, level)[1]>>

Categorised(row, level) ==
    /\ row.account_type \in DEFAULT_ASSET_TYPES
    /\ ~Falsy(_resolve_category(row, level))

\* the positions of a key in a list of category amounts
EntriesOf(categories, key) ==
    {k \in 1..Len(categories) :
        /\ categories[k].parent_category = key[1]
        /\ categories[k].category = key[2]}

\* the amount of a key in a breakdown, zero when the key is not there
AmountAt(breakdown, key) ==
    IF EntriesOf(breakdown.categories, key) = {} THEN DecimalZero
    ELSE breakdown.categories[
             FirstOf(EntriesOf(breakdown.categories, key))].amount

\* C22: a row whose balance violates the sign convention is excluded from
\* the totals of compute_net_worth_summary and of
\* compute_asset_category_breakdown: the call ends as it does on the rows
\* without that row.
C22_SignViolationExcluded ==
    AggregationCall =>
        \A i \in 1..Len(balances) :
            NegativeAsset(balances[i]) \/ PositiveLiability(balances[i])
              => SameOutcome(fx_call.result, WithoutRow(i))

\* C22, amended: such a row is logged and kept. In a returned summary the
\* net worth is the net worth without the row plus the row's converted
\* balance (minus its absolute value for a liability); in a returned
\* breakdown the amount of the row's key is the amount without the row plus
\* the row's converted balance.
C22_SignViolationKept ==
    /\ SummaryReturned =>
         \A i \in 1..Len(balances) :
            NegativeAsset(balances[i]) \/ PositiveLiability(balances[i]) =>
               /\ IsMember(IF NegativeAsset(balances[i])
                           THEN NEGATIVE_ASSET ELSE POSITIVE_LIABILITY,
                           fx_call.result.warnings)
               /\ fx_call.result.value.net_worth
                    = DecimalAdd(
                          WithoutRow(i).value.net_worth,
                          DecimalSub(
                              Contribution(balances[i], DEFAULT_ASSET_TYPES,
                                  build_price_map(prices).rates, FALSE),
                              Contribution(balances[i],
                                  DEFAULT_LIABILITY_TYPES,
                                  build_price_map(prices).rates, TRUE)))
    /\ BreakdownReturned =>
         \A i \in 1..Len(balances) :
            NegativeAsset(balances[i])
            /\ Categorised(balances[i], fx_call.level) =>
               /\ IsMember(NEGATIVE_ASSET, fx_call.result.warnings)
               /\ AmountAt(fx_call.result.value,
                           RowKey(balances[i], fx_call.level))
                    = DecimalAdd(
                          AmountAt(WithoutRow(i).value,
                                   RowKey(balances[i], fx_call.level)),
                          Contribution(balances[i], DEFAULT_ASSET_TYPES,
                              build_price_map(prices).rates, FALSE))

\* a breakdown by category of an overdrawn bank account and an asset
\* converted by a rate: one amount, the sum of the two
C22_Witness ==
    /\ BreakdownReturned
    /\ fx_call.level = 1
    /\ Len(balances) = 2
    /\ NegativeAsset(balances[1])
    /\ ~NegativeAsset(balances[2])
    /\ Categorised(balances[1], 1) /\ Categorised(balances[2], 1)
    /\ RowKey(balances[1], 1) = RowKey(balances[2], 1)
    /\ Len(fx_call.result.value.categories) = 1
    /\ fx_call.result.value.categories[1].amount = Decimal(3, 1)
    /\ fx_call.result.warnings = <<NEGATIVE_ASSET>>

----------------------------------------------------------------------------
(* compute_asset_category_breakdown: the grouping.                         *)

\* the asset rows with a category at the level whose balance is converted
GroupedRows(rows, level, rates) ==
    {i \in 1..Len(rows) :
        /\ Categorised(rows[i], level)
        /\ ConvertedOf(rows[i], rates) # None}

RowsOfKey(rows, level, rates, key) ==
    {i \in GroupedRows(rows, level, rates) : RowKey(rows[i], level) = key}

EntryKey(entry) == <<entry.parent_category, entry.category>>

\* C23: a returned breakdown has exactly the keys of the asset rows that
\* have a category at the level and are converted, (None, actif_category)
\* at level 1 and (actif_category, actif_subcategory) at level 2; each
\* amount is the sum of the converted balances of the rows with that key;
\* parent_category is set only at level 2; and a row that is not an asset
\* or has no category at the level contributes nothing.
C23_BreakdownGrouping ==
    /\ BreakdownReturned =>
         LET rates == build_price_map(prices).rates
             categories == fx_call.result.value.categories
         IN  /\ {EntryKey(categories[k]) : k \in 1..Len(categories)}
                  = {RowKey(balances[i], fx_call.level) :
                        i \in GroupedRows(balances, fx_call.level, rates)}
             /\ \A k \in 1..Len(categories) :
                  /\ categories[k].amount
                       = SumConverted(balances,
                             RowsOfKey(balances, fx_call.level, rates,
                                       EntryKey(categories[k])),
                             rates, FALSE)
                  /\ fx_call.level = 1
                       => categories[k].parent_category = None
    /\ fx_call.name = "compute_asset_category_breakdown" =>
         \A i \in 1..Len(balances) :
            ~Categorised(balances[i], fx_call.level)
              => SameOutcome(fx_call.result, WithoutRow(i))

\* by subcategory: the same overdrawn account twice around a row that is
\* not an asset gives one amount under its category
C23_Witness ==
    /\ BreakdownReturned
    /\ fx_call.level = 2
    /\ Len(balances) = 3
    /\ balances[1] = balances[3]
    /\ balances[2].account_type \notin DEFAULT_ASSET_TYPES
    /\ Len(fx_call.result.value.categories) = 1
    /\ fx_call.result.value.categories[1]
         = AssetCategoryAmount(<<"Cash">>, Decimal(0 - 2, 1), Some(ACTIFS))

----------------------------------------------------------------------------
(* compute_asset_category_breakdown: the order of the categories.          *)

\* the order of the keys: the parent first, no parent before any parent,
\* then the category
KeyBefore(a, b) ==
    IF a[1] = b[1] THEN StrLess(a[2], b[2])
    ELSE IF a[1] = None THEN TRUE
    ELSE IF b[1] = None THEN FALSE
    ELSE StrLess(a[1][1], b[1][1])

\* C24: for every input and both levels the categories are returned sorted
\* by (parent_category, category), a missing parent first, without two
\* entries for the same pair; sorting never fails, also when some rows
\* have a parent category and others have none.
C24_SortedCategories ==
    fx_call.name = "compute_asset_category_breakdown" =>
        IF HasRaised(fx_call.result)
        THEN fx_call.result.raised # TypeError
        ELSE \A j \in 1..Len(fx_call.result.value.categories) :
                \A k \in 1..Len(fx_call.result.value.categories) :
                   j < k =>
                     KeyBefore(
                         EntryKey(fx_call.result.value.categories[j]),
                         EntryKey(fx_call.result.value.categories[k]))

----------------------------------------------------------------------------
(* GetCashflowUseCase.execute: the aggregation.                            *)

\* the rows with a positive amount, or those with a negative amount
RowsOfSign(rows, positive) ==
    {i \in 1..Len(rows) :
        IF positive THEN coerce_decimal(rows[i].amount)[1] > 0
        ELSE coerce_decimal(rows[i].amount)[1] < 0}

AccountRows(rows, positions, account_guid) ==
    {i \in positions : rows[i].account_guid = account_guid}

AccountsOf(rows, positions) == {rows[i].account_guid : i \in positions}

\* the place of an account among the accounts of the rows at the positions,
\* in the order of their first rows there
RankOf(rows, positions, account_guid) ==
    1 + Cardinality(
            {other \in AccountsOf(rows, positions) :
                FirstOf(AccountRows(rows, positions, other))
                  < FirstOf(AccountRows(rows, positions, account_guid))})

\* the sum of the amounts of the rows at the positions, of their absolute
\* values when absolute is TRUE
RECURSIVE SumRows(_, _, _)
SumRows(rows, positions, absolute) ==
    IF positions = {} THEN DecimalZero
    ELSE DecimalAdd(
             IF absolute
             THEN DecimalAbs(coerce_decimal(rows[FirstOf(positions)].amount))
             ELSE coerce_decimal(rows[FirstOf(positions)].amount),
             SumRows(rows, positions \ {FirstOf(positions)}, absolute))

\* one item per account of the rows at the positions, in the order the
\* accounts first appear there, with the sum of the absolute amounts and
\* the name of the first row of the account that is not dropped
ItemsAsSpecified(rows, positions, items) ==
    /\ Len(items) = Cardinality(AccountsOf(rows, positions))
    /\ \A account_guid \in AccountsOf(rows, positions) :
          /\ items[RankOf(rows, positions, account_guid)].amount
               = SumRows(rows, AccountRows(rows, positions, account_guid),
                         TRUE)
          /\ items[RankOf(rows, positions, account_guid)].account_full_name
               = rows[FirstOf(AccountRows(
                          rows,
                          RowsOfSign(rows, TRUE) \cup RowsOfSign(rows, FALSE),
                          account_guid))].account_full_name
    /\ \A k \in 1..Len(items) : items[k].amount[1] > 0

\* C25: execute drops the rows with a zero amount; the incoming item of an
\* account is the sum of its positive amounts and its outgoing item the sum
\* of the absolute values of its negative amounts, an account with both
\* signs being in both lists; each list is in the order its accounts first
\* appear with that sign; every item amount is strictly positive; total_in
\* and total_out are the sums of the two lists and difference, total_in
\* minus total_out, is the signed sum of all the row amounts.
C25_CashflowAggregation ==
    fx_call.name = "execute" =>
        /\ ItemsAsSpecified(cashflow_rows, RowsOfSign(cashflow_rows, TRUE),
                            fx_call.result.incoming)
        /\ ItemsAsSpecified(cashflow_rows, RowsOfSign(cashflow_rows, FALSE),
                            fx_call.result.outgoing)
        /\ fx_call.result.summary.total_in
             = SumRows(cashflow_rows, RowsOfSign(cashflow_rows, TRUE), TRUE)
        /\ fx_call.result.summary.total_out
             = SumRows(cashflow_rows, RowsOfSign(cashflow_rows, FALSE), TRUE)
        /\ SummaryDifference(fx_call.result.summary)
             = SumRows(cashflow_rows, 1..Len(cashflow_rows), FALSE)

\* an outflow of one account, then an inflow of another, then an inflow of
\* the first: the first account is in both lists, second among the
\* incoming items
C25_Witness ==
    /\ fx_call.name = "execute"
    /\ Len(cashflow_rows) = 3
    /\ cashflow_rows[1].account_guid = cashflow_rows[3].account_guid
    /\ cashflow_rows[1].account_guid # cashflow_rows[2].account_guid
    /\ RowsOfSign(cashflow_rows, TRUE) = {2, 3}
    /\ RowsOfSign(cashflow_rows, FALSE) = {1}
    /\ Len(fx_call.result.incoming) = 2
    /\ Len(fx_call.result.outgoing) = 1
    /\ fx_call.result.incoming[2].amount = Decimal(2, 1)
    /\ fx_call.result.outgoing[1].amount = Decimal(1, 2)
    /\ fx_call.result.summary.total_in = Decimal(3, 1)

----------------------------------------------------------------------------
(* The drill bound.                                                        *)

\* the roots of the items of a list that have a path
ItemRoots(items) ==
    {parse_account_path(items[i].account_full_name)[1] :
        i \in {j \in 1..Len(items) :
                 parse_account_path(items[j].account_full_name) # <<>>}}

\* for every root, the largest number of path segments among its items
DeepestByRoot(items) ==
    [root \in ItemRoots(items) |-> SetMax(DepthsOfRoot(items, root))]

\* focus maps with at most one entry, for a root of the items or another
FocusMaps(items) ==
    {EmptyDict}
      \cup {Put(EmptyDict, root, level) :
              root \in ItemRoots(items) \cup {<<"Z">>},
              level \in 0..(MaxLevel + 2)}

\* a page just opened whose items are all on one side: the grouping of a
\* side reads that side's items only, so these views give it every list
AloneOn(side) ==
    /\ op = "init"
    /\ state = SankeyState(1, 1)
    /\ \A other \in Sides \ {side} : ItemsOf(view, other) = <<>>

\* C26: the drill bound is a function of the view only: on each side the
\* model's max-depth-by-root map gives, for every root, the largest number
\* of path segments among the side's items of that root, whatever the
\* focus maps, the default levels and the flags of the state are.
C26_DrillBoundOfView ==
    /\ fresh =>
         \A side \in Sides :
            ModelMaxDepths(model, side) = DeepestByRoot(ItemsOf(view, side))
    /\ \A side \in Sides :
         AloneOn(side) =>
            \A focus_by_root \in FocusMaps(ItemsOf(view, side)) :
               \A default_level \in 0..(MaxLevel + 1) :
                  _group_items_by_level(ItemsOf(view, side), focus_by_root,
                                        default_level).max_depth_by_root
                    = DeepestByRoot(ItemsOf(view, side))

\* after a click drilled into a root whose deepest item has three
\* segments, the rebuilt model still gives three for that root
C26_Witness ==
    /\ fresh
    /\ \E side \in Sides :
          \E root \in DOMAIN FocusOf(state, side) :
             /\ FocusOf(state, side)[root] = 2
             /\ DefaultOf(state, side) = 1
             /\ ModelMaxDepths(model, side)[root] = 3

----------------------------------------------------------------------------
(* Drill-down terminates.                                                  *)

\* the levels the roots of a set can still be drilled by, given the depth
\* each root is grouped at
RECURSIVE LevelsLeft(_, _, _, _)
LevelsLeft(deepest, s, side, roots) ==
    IF roots = {} THEN 0
    ELSE LET root == CHOOSE r \in roots : TRUE
         IN  Max(0, deepest[root] - DepthOf(s, side, root))
               + LevelsLeft(deepest, s, side, roots \ {root})

\* the levels left on both sides of a view
Remaining(v, s) ==
    LevelsLeft(DeepestByRoot(v.incoming), s, L, ItemRoots(v.incoming))
      + LevelsLeft(DeepestByRoot(v.outgoing), s, R, ItemRoots(v.outgoing))

\* the same with every root at its side's default level: the sum over both
\* sides and all roots of max depth minus default level, when positive
DrillBound(v, s) ==
    Remaining(v, [s EXCEPT !.left_focus = EmptyDict,
                           !.right_focus = EmptyDict])

C27_Step ==
    op' = "click" =>
        /\ Remaining(view, state) <= DrillBound(view, state)
        /\ ret' = TRUE => Remaining(view, state') < Remaining(view, state)
        /\ ret' = FALSE =>
             /\ state'.left_focus = state.left_focus
             /\ state'.right_focus = state.right_focus
        /\ Remaining(view, state) = 0 => ret' = FALSE

\* C27: drill-down terminates. Over a fixed view the levels left, at most
\* the sum over both sides and all roots of max depth minus default level
\* when positive, decrease with every click that returns True, so without
\* resets at most that many clicks return True; once no level is left every
\* click returns False, and a click that returns False leaves the focus
\* maps as they are.
C27_DrillDownTerminates == [][C27_Step]_vars

\* a root with three segments drilled twice from level 1: no level is left
\* and the third click returned False
C27_Witness ==
    /\ op = "click"
    /\ ret = FALSE
    /\ DrillBound(view, state) = 2
    /\ Remaining(view, state) = 0
    /\ \E side \in Sides : \E root \in DOMAIN FocusOf(state, side) :
          FocusOf(state, side)[root] = 3

----------------------------------------------------------------------------
(* The flow through the middle node.                                       *)

\* every item of the view has a path
AllHavePath(v) ==
    /\ \A i \in 1..Len(v.incoming) :
          parse_account_path(v.incoming[i].account_full_name) # <<>>
    /\ \A i \in 1..Len(v.outgoing) :
          parse_account_path(v.outgoing[i].account_full_name) # <<>>

\* the summary totals are the sums of the items
TotalsAreSums(v) ==
    /\ v.summary.total_in = SumAmounts(v.incoming)
    /\ v.summary.total_out = SumAmounts(v.outgoing)

RECURSIVE LinkValues(_, _)
\* the total value of the links at the positions
LinkValues(links, positions) ==
    IF positions = {} THEN 0
    ELSE links[FirstOf(positions)].value
           + LinkValues(links, positions \ {FirstOf(positions)})

FlowInto(m, node) ==
    LinkValues(m.links, {k \in 1..Len(m.links) : m.links[k].target = node})

FlowOutOf(m, node) ==
    LinkValues(m.links, {k \in 1..Len(m.links) : m.links[k].source = node})

\* C28: the middle node conserves flow: for every view whose totals are the
\* sums of its items and whose items all have a path, and for every focus
\* state, the total value of the links into the middle node equals the
\* total value of the links out of it whenever difference >= 0 or
\* allow_negative_diff is true.
C28_MiddleConservesFlow ==
    /\ fresh
    /\ TotalsAreSums(view)
    /\ AllHavePath(view)
    /\ difference(view.summary) >= 0 \/ state.allow_negative_diff
    => FlowInto(model, MiddleIndex(model))
         = FlowOutOf(model, MiddleIndex(model))

\* a deficit shown after a drill-down: the deficit link fills the gap
C28_Witness ==
    /\ fresh
    /\ AllHavePath(view)
    /\ difference(view.summary) < 0
    /\ state.allow_negative_diff
    /\ state.left_focus # EmptyDict
    /\ FlowInto(model, MiddleIndex(model)) = view.summary.total_out
    /\ FlowOutOf(model, MiddleIndex(model)) = view.summary.total_out
    /\ view.summary.total_in > 0

----------------------------------------------------------------------------
(* Regrouping.                                                             *)

\* the groups a root owns, and the groups of the other roots, in their order
OwnedBy(grouped, root) == SelectSeq(grouped, LAMBDA g : g.root = root)
NotOwnedBy(grouped, root) == SelectSeq(grouped, LAMBDA g : g.root # root)

\* the items of a root
ItemsOfRoot(items, root) ==
    SelectSeq(items,
              LAMBDA item :
                 /\ parse_account_path(item.account_full_name) # <<>>
                 /\ parse_account_path(item.account_full_name)[1] = root)

\* for every root the totals of its groups add up to the amounts of its
\* items, and the depth of one root changes nothing for the other roots
RegroupingIsLocal(items, focus_by_root, default_level) ==
    LET before == _group_items_by_level(items, focus_by_root,
                                        default_level).grouped
    IN  /\ \A root \in ItemRoots(items) :
             SumAmounts(OwnedBy(before, root))
               = SumAmounts(ItemsOfRoot(items, root))
        /\ \A g \in 1..Len(before) : before[g].root \in ItemRoots(items)
        /\ \A root \in ItemRoots(items) :
             \A level \in 0..(MaxLevel + 2) :
                NotOwnedBy(_group_items_by_level(
                               items, Put(focus_by_root, root, level),
                               default_level).grouped, root)
                  = NotOwnedBy(before, root)
        /\ \A root \in ItemRoots(items) \cap DOMAIN focus_by_root :
             NotOwnedBy(_group_items_by_level(
                            items, Pop(focus_by_root, root),
                            default_level).grouped, root)
               = NotOwnedBy(before, root)

----------------------------------------------------------------------------
(* compute_asset_category_breakdown: the two levels.                       *)

\* the outcome of the call at a level, on the rows and prices of the run
BreakdownAt(level) ==
    IF fx_call.level = level THEN fx_call.result
    ELSE compute_asset_category_breakdown(
             balances, prices, DEFAULT_ASSET_TYPES, TARGET_GUID,
             TARGET_CURRENCY, level)

RECURSIVE SumCategories(_, _)
SumCategories(categories, positions) ==
    IF positions = {} THEN DecimalZero
    ELSE DecimalAdd(categories[FirstOf(positions)].amount,
                    SumCategories(categories,
                                  positions \ {FirstOf(positions)}))

GrandTotal(breakdown) ==
    SumCategories(breakdown.categories, 1..Len(breakdown.categories))

\* the amounts of a breakdown by subcategory under a category
UnderParent(breakdown, category) ==
    SumCategories(breakdown.categories,
                  {k \in 1..Len(breakdown.categories) :
                      breakdown.categories[k].parent_category
                        = Some(category)})

\* the breakdown by subcategory refines the breakdown by category
Refines(by_subcategory, by_category) ==
    /\ \A k \in 1..Len(by_category.categories) :
         by_category.categories[k].amount
           = UnderParent(by_subcategory, by_category.categories[k].category)
    /\ GrandTotal(by_category) = GrandTotal(by_subcategory)

\* every asset row with a category has a subcategory
SubcategoryWhereCategory(rows) ==
    \A i \in 1..Len(rows) :
       (/\ rows[i].account_type \in DEFAULT_ASSET_TYPES
        /\ ~Falsy(rows[i].actif_category))
         => ~Falsy(rows[i].actif_subcategory)

\* every asset row with a subcategory has a category
CategoryWhereSubcategory(rows) ==
    \A i \in 1..Len(rows) :
       (/\ rows[i].account_type \in DEFAULT_ASSET_TYPES
        /\ ~Falsy(rows[i].actif_subcategory))
         => ~Falsy(rows[i].actif_category)

\* C30: the level-2 breakdown refines the level-1 breakdown: on the same
\* rows, prices and asset types, when every asset row with a non-empty
\* actif_category has a non-empty actif_subcategory, the level-1 amount of
\* every category is the sum of the level-2 amounts under that parent, and
\* the two breakdowns have the same grand total.
C30_Level2Refines ==
    (/\ fx_call.name = "compute_asset_category_breakdown"
     /\ SubcategoryWhereCategory(balances)
     /\ ~HasRaised(BreakdownAt(1))
     /\ ~HasRaised(BreakdownAt(2)))
      => Refines(BreakdownAt(2).value, BreakdownAt(1).value)

\* C30 (amended): when the asset rows with a non-empty actif_category are
\* exactly those with a non-empty actif_subcategory, the level-2 call
\* returns exactly when the level-1 call does, and then the level-1 amount
\* of every category is the sum of the level-2 amounts under that parent,
\* every level-2 amount is under a level-1 category, and the grand totals
\* are equal.
C30_AlignedLevel2Refines ==
    (/\ fx_call.name = "compute_asset_category_breakdown"
     /\ SubcategoryWhereCategory(balances)
     /\ CategoryWhereSubcategory(balances))
      => /\ HasRaised(BreakdownAt(1)) <=> HasRaised(BreakdownAt(2))
         /\ ~HasRaised(BreakdownAt(1)) =>
              /\ Refines(BreakdownAt(2).value, BreakdownAt(1).value)
              /\ \A k \in 1..Len(BreakdownAt(2).value.categories) :
                   \E j \in 1..Len(BreakdownAt(1).value.categories) :
                      BreakdownAt(2).value.categories[k].parent_category
                        = Some(BreakdownAt(1).value.categories[j].category)

\* a deposit in USD and an overdrawn account in two subcategories of one
\* category: 2 * 1/2 under Banque and -1 under Cash give 0 by category
C30_Witness ==
    /\ fx_call.name = "compute_asset_category_breakdown"
    /\ SubcategoryWhereCategory(balances)
    /\ CategoryWhereSubcategory(balances)
    /\ ~HasRaised(BreakdownAt(1))
    /\ Len(BreakdownAt(1).value.categories) = 1
    /\ Len(BreakdownAt(2).value.categories) = 2
    /\ BreakdownAt(2).value.categories[1].amount = Decimal(1, 1)
    /\ BreakdownAt(2).value.categories[2].amount = Decimal(0 - 1, 1)
    /\ BreakdownAt(1).value.categories[1]
         = AssetCategoryAmount(ACTIFS, DecimalZero, None)

====
